---- MODULE Spec2Model ----
(***************************************************************************)
(* Model of the layout-to-component mapping engine of the Figma MCP        *)
(* server: the similarity scorer and tree flattener of src/src/utils.py    *)
(* and the mapper of src/src/tools/map_components.py.                      *)
(*                                                                         *)
(* Python strings on which the code performs substring tests, lower() or   *)
(* split() are sequences of one-character strings, so that those           *)
(* operations are computed and not assumed.  Scores and confidence floors  *)
(* are integers: every score the code can produce is a sum of 30/20, 40,   *)
(* 10 and 5.  Python dicts that are iterated keep their insertion order    *)
(* and are sequences of [k, v] records; Python sets that are joined into   *)
(* text are rendered in an order the run chooses (string hashing is        *)
(* randomised per process).                                                *)
(***************************************************************************)
EXTENDS Integers, Sequences, FiniteSets, TLC

VARIABLES
    pc,                        \* position of the call being modelled
    document,                  \* the layout tree: arena of nodes, root = 1
    design_system_components,  \* the catalog handed to the mapper
    min_confidence,            \* the caller's confidence floor
    layout_elements,           \* result of _extract_layout_elements
    flat_elements,             \* result of flatten_figma_tree
    mappings,                  \* report of the latest _map_elements_to_components
    prev_mappings,             \* report of the run before the latest one
    figma_element,             \* argument of calculate_similarity_score
    design_system_component,   \* argument of calculate_similarity_score
    score,                     \* its return value
    color,                     \* argument of _format_color
    color_string,              \* its return value
    figma_data,                \* the tree handed to _extract_styles_recursive
    styles,                    \* its outcome: the digest, or the exception
    container_children,        \* argument of _analyze_spacing_pattern
    spacing_pattern,           \* its return value
    request,                   \* arguments of map_layout_to_components
    tool_trace,                \* the work that call has performed, in order
    tool_result,               \* how that call ended
    context,                   \* RequestContext of MyAgentExecutor.execute
    stream,                    \* what the agent stream will yield, in order
    consumed,                  \* number of stream steps execute has taken
    event_queue,               \* events enqueued on the EventQueue, in order
    returned,                  \* how execute ended
    bound_props,               \* return value of _determine_props_mapping
    include_imports,           \* argument of _generate_react_code
    include_typescript,        \* argument of _generate_react_code
    generated_code,            \* its return value
    components_data,           \* what the Figma API answers about the catalog
    container,                 \* arguments of _analyze_responsive_pattern
    responsive_pattern         \* its return value

mapping_vars == <<document, design_system_components, min_confidence,
                  layout_elements, flat_elements, mappings, prev_mappings,
                  figma_element, design_system_component, score>>

style_vars == <<color, color_string, figma_data, styles>>

spacing_vars == <<container_children, spacing_pattern>>

tool_vars == <<request, tool_trace, tool_result>>

exec_vars == <<context, stream, consumed, event_queue, returned>>

generator_vars == <<bound_props, include_imports, include_typescript,
                    generated_code, components_data>>

responsive_vars == <<container, responsive_pattern>>

analysis_vars == <<style_vars, spacing_vars, tool_vars, exec_vars,
                   generator_vars, responsive_vars>>

vars == <<pc, mapping_vars, analysis_vars>>

\* the value of a variable no call has touched
NoValue == <<>>

IdleStyle ==
    /\ color = NoValue
    /\ color_string = NoValue
    /\ figma_data = NoValue
    /\ styles = NoValue

IdleSpacing ==
    /\ container_children = NoValue
    /\ spacing_pattern = NoValue

IdleTool ==
    /\ request = NoValue
    /\ tool_trace = NoValue
    /\ tool_result = NoValue

IdleExec ==
    /\ context = NoValue
    /\ stream = NoValue
    /\ consumed = 0
    /\ event_queue = NoValue
    /\ returned = NoValue

IdleGenerator ==
    /\ bound_props = NoValue
    /\ include_imports = FALSE
    /\ include_typescript = FALSE
    /\ generated_code = NoValue
    /\ components_data = NoValue

IdleResponsive ==
    /\ container = NoValue
    /\ responsive_pattern = NoValue

IdleAnalysis ==
    /\ IdleStyle /\ IdleSpacing /\ IdleTool /\ IdleExec
    /\ IdleGenerator /\ IdleResponsive

-----------------------------------------------------------------------------
(* Bounds of the model.                                                    *)

MaxChildren == 2      \* children of the document root in the mapping runs
MaxCatalog == 2       \* components in a catalog
MaxTreeNodes == 4     \* nodes of a tree handed to the flatteners

-----------------------------------------------------------------------------
(* Python str operations.                                                  *)

UpperCase == <<"A","B","C","D","E","F","G","H","I","J","K","L","M",
               "N","O","P","Q","R","S","T","U","V","W","X","Y","Z">>
LowerCase == <<"a","b","c","d","e","f","g","h","i","j","k","l","m",
               "n","o","p","q","r","s","t","u","v","w","x","y","z">>

LowerTable ==
    [c \in { UpperCase[i] : i \in 1..26 } |->
        LowerCase[CHOOSE i \in 1..26 : UpperCase[i] = c]]

\* str.lower() on one character
LowerChar(c) == IF c \in DOMAIN LowerTable THEN LowerTable[c] ELSE c

\* str.lower()
lower(s) == [i \in 1..Len(s) |-> LowerChar(s[i])]

\* the Python expression `a in b` on two strings
in_str(a, b) ==
    \E i \in 0..(Len(b) - Len(a)) : \A j \in 1..Len(a) : b[i + j] = a[j]

\* str.split(): the maximal runs of non-blank characters, in order
RECURSIVE split_from(_, _, _)
split_from(s, i, word) ==
    IF i > Len(s)
    THEN IF word = <<>> THEN <<>> ELSE <<word>>
    ELSE IF s[i] = " "
         THEN IF word = <<>>
              THEN split_from(s, i + 1, <<>>)
              ELSE <<word>> \o split_from(s, i + 1, <<>>)
         ELSE split_from(s, i + 1, Append(word, s[i]))

split(s) == split_from(s, 1, <<>>)

\* any(p(x) for x in seq) is written \E i \in 1..Len(seq) : p(seq[i])

-----------------------------------------------------------------------------
(* String literals of the source.                                          *)

kw_Input == <<"I","n","p","u","t">>
kw_TextArea == <<"T","e","x","t","A","r","e","a">>
kw_TextField == <<"T","e","x","t","F","i","e","l","d">>
kw_Button == <<"B","u","t","t","o","n">>
kw_Card == <<"C","a","r","d">>
kw_Container == <<"C","o","n","t","a","i","n","e","r">>
kw_Modal == <<"M","o","d","a","l">>
kw_Dialog == <<"D","i","a","l","o","g">>
kw_Component == <<"C","o","m","p","o","n","e","n","t">>

\* type_mapping of calculate_similarity_score, in dict order
type_mapping ==
    << [key |-> "TEXT",      types |-> <<kw_Input, kw_TextArea, kw_TextField>>],
       [key |-> "RECTANGLE", types |-> <<kw_Button, kw_Card, kw_Container>>],
       [key |-> "FRAME",     types |-> <<kw_Modal, kw_Dialog, kw_Card>>],
       [key |-> "INSTANCE",  types |-> <<kw_Component>>],
       [key |-> "COMPONENT", types |-> <<kw_Component>>] >>

max_score == 100

-----------------------------------------------------------------------------
(* utils.calculate_similarity_score                                        *)
(* An element is a record with at least name, type, is_instance and        *)
(* has_instanceOf (whether the dict has the key "instanceOf"); a component *)
(* is a record with at least name and has_variants (the value of           *)
(* .get("has_variants", False)).                                           *)

\* any(word in figma_name for word in words)
any_word_in(words, figma_name) ==
    \E w \in 1..Len(words) : in_str(words[w], figma_name)

name_score(figma_name, component_name) ==
    IF in_str(component_name, figma_name) \/ in_str(figma_name, component_name)
    THEN 30
    ELSE IF any_word_in(split(component_name), figma_name)
         THEN 20
         ELSE 0

type_score(figma_type, component_name) ==
    IF \E k \in 1..Len(type_mapping) :
          /\ figma_type = type_mapping[k].key
          /\ \E t \in 1..Len(type_mapping[k].types) :
                in_str(type_mapping[k].types[t], component_name)
    THEN 40
    ELSE 0

Min(a, b) == IF a <= b THEN a ELSE b

\* the scorer with the instance bonus subtracted instead of added
calculate_similarity_score_sign_slip(element, component) ==
    LET figma_name == lower(element.name)
        component_name == lower(component.name)
        s1 == name_score(figma_name, component_name)
        s2 == type_score(element.type, component_name)
        s3 == IF element.is_instance /\ element.has_instanceOf THEN 10 ELSE 0
        s4 == IF component.has_variants THEN 5 ELSE 0
    IN  Min(s1 + s2 - s3 + s4, max_score)

\* the scorer granting the instance bonus on is_instance alone
calculate_similarity_score_any_instance(element, component) ==
    LET figma_name == lower(element.name)
        component_name == lower(component.name)
        s1 == name_score(figma_name, component_name)
        s2 == type_score(element.type, component_name)
        s3 == IF element.is_instance THEN 10 ELSE 0
        s4 == IF component.has_variants THEN 5 ELSE 0
    IN  Min(s1 + s2 + s3 + s4, max_score)

calculate_similarity_score(element, component) ==
    LET figma_name == lower(element.name)
        component_name == lower(component.name)
        s1 == name_score(figma_name, component_name)
        s2 == type_score(element.type, component_name)
        s3 == IF element.is_instance /\ element.has_instanceOf THEN 10 ELSE 0
        s4 == IF component.has_variants THEN 5 ELSE 0
    IN  Min(s1 + s2 + s3 + s4, max_score)

-----------------------------------------------------------------------------
(* Layout trees.  A tree is an arena: a sequence of nodes, node 1 is the   *)
(* root, and children holds the indices of a node's children in the order  *)
(* of the "children" list.  has_name tells whether the dict has "name".    *)

s_Unnamed == <<"U","n","n","a","m","e","d">>
s_unnamed == <<"u","n","n","a","m","e","d">>
s_slash == <<"/">>
s_empty == <<>>
n_A == <<"A">>
n_Document == <<"D","o","c","u","m","e","n","t">>
n_PrimaryButton == <<"P","r","i","m","a","r","y"," ","B","u","t","t","o","n">>
n_Title == <<"T","i","t","l","e">>
n_Button == <<"B","u","t","t","o","n">>
n_EmailInput == <<"E","m","a","i","l"," ","I","n","p","u","t">>
n_Card == <<"C","a","r","d">>
n_Primary == <<"P","r","i","m","a","r","y">>
n_TitleButton == <<"T","i","t","l","e"," ","B","u","t","t","o","n">>
n_Input == <<"I","n","p","u","t">>
n_BigCard == <<"B","i","g"," ","C","a","r","d">>
n_Component == <<"C","o","m","p","o","n","e","n","t">>

Node(has_name, name, type, characters, componentProperties) ==
    [has_name |-> has_name, name |-> name, type |-> type,
     characters |-> characters, componentProperties |-> componentProperties,
     children |-> <<>>]

\* node.get("name", default)
get_name(node, default) == IF node.has_name THEN node.name ELSE default

\* f"{parent_path}/{name}" if parent_path else name
join_path(parent_path, name) ==
    IF parent_path # <<>> THEN parent_path \o s_slash \o name ELSE name

(* utils.flatten_figma_tree: node_info of one node.  name is None when the *)
(* key is missing, which has_name records.                                 *)
node_info(tree, n, current_path) ==
    [id |-> n,
     has_name |-> tree[n].has_name,
     name |-> tree[n].name,
     type |-> tree[n].type,
     path |-> current_path,
     is_component |-> tree[n].type = "COMPONENT",
     is_component_set |-> tree[n].type = "COMPONENT_SET",
     is_instance |-> tree[n].type = "INSTANCE",
     children_count |-> Len(tree[n].children)]

RECURSIVE flatten_figma_tree(_, _, _, _)
RECURSIVE flatten_children(_, _, _, _, _)

\* flatten_children visiting the children from the last to the first
RECURSIVE flatten_children_reversed(_, _, _, _, _)
flatten_children_reversed(tree, children, i, result, current_path) ==
    IF i > Len(children)
    THEN result
    ELSE flatten_children_reversed(tree, children, i + 1,
             flatten_figma_tree(tree, children[Len(children) + 1 - i], result,
                                current_path),
             current_path)

\* the loop `for child in node["children"]` from its i-th iteration on
flatten_children(tree, children, i, result, current_path) ==
    IF i > Len(children)
    THEN result
    ELSE flatten_children(tree, children, i + 1,
             flatten_figma_tree(tree, children[i], result, current_path),
             current_path)

flatten_figma_tree(tree, n, result, parent_path) ==
    LET current_path == join_path(parent_path, get_name(tree[n], s_unnamed))
    IN  flatten_children(tree, tree[n].children, 1,
            Append(result, node_info(tree, n, current_path)), current_path)

(* map_components._extract_layout_elements: element_info of one node.      *)
(* has_instanceOf: whether the dict has the key "instanceOf"; this         *)
(* extractor never sets it.                                                *)
element_info(tree, n, parent_path) ==
    LET node == tree[n]
    IN [id |-> n,
        name |-> get_name(node, s_Unnamed),
        type |-> node.type,
        path |-> join_path(parent_path, get_name(node, s_empty)),
        is_component |-> node.type = "COMPONENT",
        is_instance |-> node.type = "INSTANCE",
        is_text |-> node.type = "TEXT",
        is_group |-> node.type = "GROUP",
        is_frame |-> node.type = "FRAME",
        text_content |-> IF node.type = "TEXT" THEN node.characters ELSE "",
        component_properties |->
            IF node.type = "INSTANCE" THEN node.componentProperties ELSE <<>>,
        has_instanceOf |-> FALSE]

RECURSIVE extract_elements(_, _, _, _)
RECURSIVE extract_children(_, _, _, _, _)

extract_children(tree, children, i, elements, path) ==
    IF i > Len(children)
    THEN elements
    ELSE extract_children(tree, children, i + 1,
             extract_elements(tree, children[i], elements, path), path)

extract_elements(tree, n, elements, parent_path) ==
    LET info == element_info(tree, n, parent_path)
    IN  extract_children(tree, tree[n].children, 1,
            Append(elements, info), info.path)

\* _extract_layout_elements on an already fetched document
extract_layout_elements(tree) == extract_elements(tree, 1, <<>>, <<>>)

-----------------------------------------------------------------------------
(* Inputs of the flatteners: every tree shape with at most MaxTreeNodes    *)
(* nodes, each node missing its name, having an empty name or a name.      *)

FlatNodeInputs ==
    { Node(FALSE, <<>>, "GROUP", "", <<>>),
      Node(TRUE, s_empty, "FRAME", "", <<>>),
      Node(TRUE, n_A, "INSTANCE", "", <<>>) }

RECURSIVE Ascending(_)
Ascending(S) ==
    IF S = {} THEN <<>>
    ELSE LET m == CHOOSE x \in S : \A y \in S : x <= y
         IN  <<m>> \o Ascending(S \ {m})

ParentFns(N) == { p \in [2..N -> 1..N] : \A i \in 2..N : p[i] < i }

BuildTree(N, par, templ) ==
    [i \in 1..N |->
        [templ[i] EXCEPT !.children = Ascending({j \in 2..N : par[j] = i})]]

TreeInputs ==
    UNION { { BuildTree(N, par, templ) :
                par \in ParentFns(N), templ \in [1..N -> FlatNodeInputs] } :
            N \in 1..MaxTreeNodes }

-----------------------------------------------------------------------------
(* Values of the variables a specification does not use.                   *)

NoElement ==
    [name |-> <<>>, type |-> "", is_instance |-> FALSE, has_instanceOf |-> FALSE]
NoComponent == [name |-> <<>>, has_variants |-> FALSE]
NoReport ==
    [mappings |-> <<>>, unmapped_elements |-> <<>>, component_mappings |-> <<>>,
     successfully_mapped |-> 0, total_mappable_elements |-> 0,
     mapping_rate |-> <<>>, average_confidence |-> 0]

-----------------------------------------------------------------------------
(* The flatteners applied to a tree.                                       *)

InitFlat ==
    /\ pc = "tree"
    /\ document \in TreeInputs
    /\ design_system_components = <<>>
    /\ min_confidence = 0
    /\ layout_elements = <<>>
    /\ flat_elements = <<>>
    /\ mappings = NoReport
    /\ prev_mappings = NoReport
    /\ figma_element = NoElement
    /\ design_system_component = NoComponent
    /\ score = 0
    /\ IdleAnalysis

\* a call flatten_figma_tree(document); result defaults to None, so the
\* call starts from a fresh list
FlattenFigmaTree ==
    /\ pc \in {"tree", "flattened"}
    /\ flat_elements' = flatten_figma_tree(document, 1, <<>>, <<>>)
    /\ pc' = "flattened"
    /\ UNCHANGED <<document, design_system_components, min_confidence,
                   layout_elements, mappings, prev_mappings,
                   figma_element, design_system_component, score>>
    /\ UNCHANGED analysis_vars

\* a call _extract_layout_elements(file_key) whose get_file returned document
ExtractLayoutElements ==
    /\ pc \in {"start", "flattened", "extracted_flat"}
    /\ layout_elements' = extract_layout_elements(document)
    /\ pc' = IF pc = "start" THEN "extracted" ELSE "extracted_flat"
    /\ UNCHANGED <<document, design_system_components, min_confidence,
                   flat_elements, mappings, prev_mappings,
                   figma_element, design_system_component, score>>
    /\ UNCHANGED analysis_vars

NextFlat == FlattenFigmaTree \/ ExtractLayoutElements

SpecFlat == InitFlat /\ [][NextFlat]_vars

-----------------------------------------------------------------------------
(* The scorer applied to one element and one component.                    *)

ScoreElementInputs ==
    { [name |-> n, type |-> t, is_instance |-> i, has_instanceOf |-> o] :
        n \in {n_PrimaryButton, n_EmailInput, n_Card, s_empty},
        t \in {"TEXT", "RECTANGLE", "FRAME", "INSTANCE", "COMPONENT", "GROUP"},
        i \in BOOLEAN, o \in BOOLEAN }

ScoreComponentInputs ==
    { [name |-> n, has_variants |-> v] :
        n \in {n_Button, n_Input, n_BigCard, n_Component, s_empty},
        v \in BOOLEAN }

InitScore ==
    /\ pc = "score"
    /\ figma_element \in ScoreElementInputs
    /\ design_system_component \in ScoreComponentInputs
    /\ score = 0
    /\ document = <<>>
    /\ design_system_components = <<>>
    /\ min_confidence = 0
    /\ layout_elements = <<>>
    /\ flat_elements = <<>>
    /\ mappings = NoReport
    /\ prev_mappings = NoReport
    /\ IdleAnalysis

\* a call calculate_similarity_score(figma_element, design_system_component)
CalculateSimilarityScore ==
    /\ pc \in {"score", "scored"}
    /\ score' = calculate_similarity_score(figma_element, design_system_component)
    /\ pc' = "scored"
    /\ UNCHANGED <<figma_element, design_system_component, document,
                   design_system_components, min_confidence, layout_elements,
                   flat_elements, mappings, prev_mappings>>
    /\ UNCHANGED analysis_vars

NextScore == CalculateSimilarityScore

SpecScore == InitScore /\ [][NextScore]_vars

-----------------------------------------------------------------------------
(* Python dicts with string keys, in insertion order: sequences of         *)
(* [k |-> key, v |-> value].                                               *)

dict_keys(d) == { d[i].k : i \in 1..Len(d) }

\* d[k] = v
dict_set(d, k, v) ==
    IF k \in dict_keys(d)
    THEN [i \in 1..Len(d) |-> IF d[i].k = k THEN [k |-> k, v |-> v] ELSE d[i]]
    ELSE Append(d, [k |-> k, v |-> v])

\* d.update(other)
RECURSIVE dict_update(_, _)
dict_update(d, other) ==
    IF other = <<>> THEN d
    ELSE dict_update(dict_set(d, Head(other).k, Head(other).v), Tail(other))

\* the dict as the set of its items, for comparisons that ignore order
dict_items(d) == { <<d[i].k, d[i].v>> : i \in 1..Len(d) }

-----------------------------------------------------------------------------
(* String literals of map_components._determine_props_mapping.             *)

kw_button == <<"b","u","t","t","o","n">>
kw_btn == <<"b","t","n">>
kw_submit == <<"s","u","b","m","i","t">>
kw_confirm == <<"c","o","n","f","i","r","m">>
kw_primary == <<"p","r","i","m","a","r","y">>
kw_secondary == <<"s","e","c","o","n","d","a","r","y">>
kw_danger == <<"d","a","n","g","e","r">>
kw_delete == <<"d","e","l","e","t","e">>
kw_large == <<"l","a","r","g","e">>
kw_big == <<"b","i","g">>
kw_small == <<"s","m","a","l","l">>
kw_sm == <<"s","m">>
kw_input == <<"i","n","p","u","t">>
kw_field == <<"f","i","e","l","d">>
kw_textfield == <<"t","e","x","t","f","i","e","l","d">>
kw_email == <<"e","m","a","i","l">>
kw_password == <<"p","a","s","s","w","o","r","d">>
kw_search == <<"s","e","a","r","c","h">>
kw_textarea == <<"t","e","x","t","a","r","e","a">>

k_value == <<"v","a","l","u","e">>
k_text == <<"t","e","x","t">>
k_children == <<"c","h","i","l","d","r","e","n">>
k_label == <<"l","a","b","e","l">>
k_placeholder == <<"p","l","a","c","e","h","o","l","d","e","r">>
k_title == <<"t","i","t","l","e">>
k_variant == <<"v","a","r","i","a","n","t">>
k_size == <<"s","i","z","e">>
k_type == <<"t","y","p","e">>

text_prop_names == <<k_value, k_text, k_children, k_label, k_placeholder, k_title>>

\* any(keyword in element_name for keyword in keywords)
any_keyword_in(keywords, element_name) ==
    \E i \in 1..Len(keywords) : in_str(keywords[i], element_name)

-----------------------------------------------------------------------------
(* Catalog components.  props_is_list tells the shape of component["props"]:*)
(* a list of property definitions [name, required], or (FALSE) the dict    *)
(* that extract_component_properties returns, whose iteration yields its   *)
(* keys, which are strings and have no .get; props then holds the list     *)
(* under that dict's key "props".  has_variants is the value of            *)
(* component.get("has_variants", False); variants is                       *)
(* component.get("variants", []).                                          *)

Component(name, props_is_list, props, variants) ==
    [name |-> name, props_is_list |-> props_is_list, props |-> props,
     variants |-> variants, has_variants |-> FALSE]

Prop(name, required) == [name |-> name, required |-> required]

\* number of keys of the dict built by extract_component_properties
PropertiesDictLen == 8

\* len(component.get("props", []))
props_count(component) ==
    IF component.props_is_list THEN Len(component.props) ELSE PropertiesDictLen

-----------------------------------------------------------------------------
(* map_components._determine_props_mapping.  The result is                 *)
(* [raised, value]: raised when the code raises AttributeError.            *)

\* index of the first prop whose lowered name is a text prop name, 0 if none
first_text_prop(component_props) ==
    IF \E i \in 1..Len(component_props) :
          \E j \in 1..Len(text_prop_names) :
              lower(component_props[i].name) = text_prop_names[j]
    THEN CHOOSE i \in 1..Len(component_props) :
          /\ \E j \in 1..Len(text_prop_names) :
                lower(component_props[i].name) = text_prop_names[j]
          /\ \A h \in 1..(i - 1) : \A j \in 1..Len(text_prop_names) :
                lower(component_props[h].name) # text_prop_names[j]
    ELSE 0

instance_props(element, props_mapping) ==
    IF element.is_instance /\ element.component_properties # <<>>
    THEN dict_update(props_mapping, element.component_properties)
    ELSE props_mapping

\* text_props binding the text to children whatever the component declares
text_props_children_only(element, component, props_mapping) ==
    IF element.is_text /\ element.text_content # ""
    THEN dict_set(props_mapping, k_children, element.text_content)
    ELSE props_mapping

text_props(element, component, props_mapping) ==
    IF element.is_text /\ element.text_content # ""
    THEN LET i == first_text_prop(component.props)
         IN  IF i # 0
             THEN dict_set(props_mapping, component.props[i].name,
                           element.text_content)
             ELSE dict_set(props_mapping, k_children, element.text_content)
    ELSE props_mapping

button_props(element_name, props_mapping) ==
    IF any_keyword_in(<<kw_button, kw_btn, kw_submit, kw_confirm>>, element_name)
    THEN LET p1 ==
                 IF in_str(kw_primary, element_name)
                 THEN dict_set(props_mapping, k_variant, "primary")
                 ELSE IF in_str(kw_secondary, element_name)
                 THEN dict_set(props_mapping, k_variant, "secondary")
                 ELSE IF in_str(kw_danger, element_name)
                         \/ in_str(kw_delete, element_name)
                 THEN dict_set(props_mapping, k_variant, "danger")
                 ELSE props_mapping
         IN  IF in_str(kw_large, element_name) \/ in_str(kw_big, element_name)
             THEN dict_set(p1, k_size, "large")
             ELSE IF in_str(kw_small, element_name) \/ in_str(kw_sm, element_name)
             THEN dict_set(p1, k_size, "small")
             ELSE p1
    ELSE props_mapping

input_props(element_name, props_mapping) ==
    IF any_keyword_in(<<kw_input, kw_field, kw_textfield>>, element_name)
    THEN IF in_str(kw_email, element_name)
         THEN dict_set(dict_set(dict_set(props_mapping, k_type, "email"),
                                k_label, "Email"),
                       k_placeholder, "Enter your email")
         ELSE IF in_str(kw_password, element_name)
         THEN dict_set(dict_set(dict_set(props_mapping, k_type, "password"),
                                k_label, "Password"),
                       k_placeholder, "Enter your password")
         ELSE IF in_str(kw_search, element_name)
         THEN dict_set(props_mapping, k_placeholder, "Search...")
         ELSE props_mapping
    ELSE props_mapping

determine_props_mapping(element, component) ==
    IF /\ element.is_text /\ element.text_content # ""
       /\ ~component.props_is_list
    THEN [raised |-> TRUE, value |-> <<>>]
    ELSE [raised |-> FALSE,
          value |->
            input_props(lower(element.name),
              button_props(lower(element.name),
                text_props(element, component,
                  instance_props(element, <<>>))))]

-----------------------------------------------------------------------------
(* map_components._generate_component_example: the text                    *)
(* <Name key="value" ... /> as its tag and its attributes in order (every  *)
(* bound value of the model is a str).                                     *)

generate_component_example(component, props_mapping) ==
    [tag |-> component.name, attrs |-> props_mapping]

-----------------------------------------------------------------------------
(* map_components._generate_mapping_notes.  ', '.join(a_set) lists the set *)
(* in its iteration order, which for a set of str depends on the hash seed *)
(* of the process: order is the sequence in which this run iterates keys.  *)
(* A note is its fixed text and the set it joins (empty when it joins      *)
(* none); join_notes, applied to the finished report, joins every set in   *)
(* the order of the run.                                                   *)

\* ', '.join(a_set)
join_set(a_set, order) == SelectSeq(order, LAMBDA k : k \in a_set)

component_prop_names(component) ==
    { component.props[i].name : i \in 1..Len(component.props) }

required_props(component) ==
    { component.props[i].name :
        i \in { j \in 1..Len(component.props) : component.props[j].required } }

unsupported_props(component, props_mapping) ==
    dict_keys(props_mapping) \ component_prop_names(component)

missing_required(component, props_mapping) ==
    required_props(component) \ dict_keys(props_mapping)

generate_mapping_notes(element, component, props_mapping) ==
    IF ~component.props_is_list
    THEN [raised |-> TRUE, value |-> <<>>]
    ELSE [raised |-> FALSE,
          value |->
            (IF element.is_instance
             THEN << [note |-> "Element is an instance of a Figma component",
                      names |-> {}] >>
             ELSE <<>>)
            \o
            (IF unsupported_props(component, props_mapping) # {}
             THEN << [note |-> "Note: Some mapped props may not be supported by component: ",
                      names |-> unsupported_props(component, props_mapping)] >>
             ELSE <<>>)
            \o
            (IF missing_required(component, props_mapping) # {}
             THEN << [note |-> "Warning: Missing required props: ",
                      names |-> missing_required(component, props_mapping)] >>
             ELSE <<>>)]

-----------------------------------------------------------------------------
(* map_components._determine_import_path.  Every key of import_paths is    *)
(* the lower-cased last segment of its path, so the dict is kept as the    *)
(* list of those segments, in dict order.                                  *)

s_react_ui == <<"@","s","k","b","k","o","n","t","u","r","/","r","e","a","c","t","-","u","i">>

import_path_names ==
    << <<"B","u","t","t","o","n">>,
       <<"I","n","p","u","t">>,
       <<"T","e","x","t","a","r","e","a">>,
       <<"S","e","l","e","c","t">>,
       <<"C","h","e","c","k","b","o","x">>,
       <<"R","a","d","i","o">>,
       <<"S","w","i","t","c","h">>,
       <<"M","o","d","a","l">>,
       <<"D","i","a","l","o","g">>,
       <<"C","a","r","d">>,
       <<"T","a","b","l","e">>,
       <<"D","r","o","p","d","o","w","n">>,
       <<"T","o","o","l","t","i","p">>,
       <<"P","o","p","u","p">>,
       <<"T","a","b","s">>,
       <<"A","c","c","o","r","d","i","o","n">>,
       <<"B","a","d","g","e">>,
       <<"A","v","a","t","a","r">>,
       <<"I","c","o","n">>,
       <<"S","p","i","n","n","e","r">>,
       <<"P","r","o","g","r","e","s","s">>,
       <<"S","k","e","l","e","t","o","n">>,
       <<"A","l","e","r","t">>,
       <<"N","o","t","i","f","i","c","a","t","i","o","n">>,
       <<"B","r","e","a","d","c","r","u","m","b","s">>,
       <<"P","a","g","i","n","a","t","i","o","n">>,
       <<"S","t","e","p","p","e","r">>,
       <<"R","a","t","i","n","g">>,
       <<"S","l","i","d","e","r">>,
       <<"D","a","t","e","P","i","c","k","e","r">>,
       <<"T","i","m","e","P","i","c","k","e","r">>,
       <<"C","a","l","e","n","d","a","r">>,
       <<"T","r","e","e">>,
       <<"M","e","n","u">>,
       <<"N","a","v","b","a","r">>,
       <<"S","i","d","e","b","a","r">>,
       <<"F","o","o","t","e","r">>,
       <<"L","a","y","o","u","t">>,
       <<"G","r","i","d">>,
       <<"F","l","e","x">>,
       <<"S","t","a","c","k">>,
       <<"C","o","n","t","a","i","n","e","r">>,
       <<"P","a","p","e","r">>,
       <<"B","o","x">>,
       <<"F","o","r","m">>,
       <<"F","o","r","m","G","r","o","u","p">>,
       <<"F","o","r","m","C","o","n","t","r","o","l">>,
       <<"F","o","r","m","L","a","b","e","l">>,
       <<"F","o","r","m","H","e","l","p","e","r","T","e","x","t">>,
       <<"F","o","r","m","E","r","r","o","r","M","e","s","s","a","g","e">> >>

\* f"@skbkontur/react-ui/{name}"
react_ui_path(name) == s_react_ui \o s_slash \o name

determine_import_path(component) ==
    LET component_lower == lower(component.name)
        hits == { i \in 1..Len(import_path_names) :
                    \/ in_str(lower(import_path_names[i]), component_lower)
                    \/ in_str(component_lower, lower(import_path_names[i])) }
    IN  IF hits # {}
        THEN react_ui_path(import_path_names[CHOOSE i \in hits :
                                                \A h \in hits : i <= h])
        ELSE react_ui_path(component.name)

-----------------------------------------------------------------------------
(* map_components._create_mapping.  Of matched_component the model keeps   *)
(* name, import_path, props_count and has_variants; it leaves out type and *)
(* description, which nothing reads.  The dict has no key "props".         *)

matched_component_info(component) ==
    [name |-> component.name,
     import_path |-> determine_import_path(component),
     props_count |-> props_count(component),
     has_variants |-> Len(component.variants) > 0]

figma_element_info(element) ==
    [id |-> element.id,
     name |-> element.name,
     type |-> element.type,
     path |-> element.path,
     is_instance |-> element.is_instance,
     is_text |-> element.is_text,
     text_content |-> IF element.is_text THEN element.text_content ELSE "",
     component_properties |->
        IF element.is_instance THEN element.component_properties ELSE <<>>]

create_mapping(element, component, confidence) ==
    LET props_mapping == determine_props_mapping(element, component)
        notes == generate_mapping_notes(element, component,
                                        props_mapping.value)
    IN  IF props_mapping.raised \/ notes.raised
        THEN [raised |-> TRUE, value |-> <<>>]
        ELSE [raised |-> FALSE,
              value |->
                [figma_element |-> figma_element_info(element),
                 matched_component |-> matched_component_info(component),
                 confidence |-> confidence,
                 props_mapping |-> props_mapping.value,
                 example_code |->
                    generate_component_example(component, props_mapping.value),
                 mapping_notes |-> notes.value]]

-----------------------------------------------------------------------------
(* map_components._get_suggestion_reason and _generate_element_suggestions.*)
(* A reason is the list of the joined phrases, and the score that the      *)
(* partial-match phrase prints (0 when it is not printed).                 *)

get_suggestion_reason(element, component, the_score) ==
    LET element_name == lower(element.name)
        component_name == lower(component.name)
        r1 == IF in_str(component_name, element_name)
                 \/ in_str(element_name, component_name)
              THEN <<"name similarity">> ELSE <<>>
        r2 == IF /\ element.type = "TEXT"
                 /\ any_keyword_in(<<kw_input, kw_textarea, kw_textfield>>,
                                   component_name)
              THEN <<"text element matches input component">>
              ELSE IF /\ element.type \in {"RECTANGLE", "FRAME"}
                      /\ in_str(kw_button, component_name)
              THEN <<"rectangular element matches button component">>
              ELSE IF element.type = "INSTANCE"
              THEN <<"instance of a Figma component">>
              ELSE <<>>
    IN  IF r1 \o r2 = <<>>
        THEN [reasons |-> <<"partial match (score: )">>, score |-> the_score]
        ELSE [reasons |-> r1 \o r2, score |-> 0]

\* list.sort(reverse=True, key=score): stable, descending
RECURSIVE insert_sorted(_, _)
insert_sorted(sorted, item) ==
    IF sorted = <<>> THEN <<item>>
    ELSE IF Head(sorted).score >= item.score
         THEN <<Head(sorted)>> \o insert_sorted(Tail(sorted), item)
         ELSE <<item>> \o sorted

RECURSIVE sort_reverse(_, _, _)
sort_reverse(items, i, sorted) ==
    IF i > Len(items) THEN sorted
    ELSE sort_reverse(items, i + 1, insert_sorted(sorted, items[i]))

SuggestionThreshold == 30
SuggestionLimit == 3

\* generate_element_suggestions keeping the scores equal to the threshold
generate_element_suggestions_from_threshold(element, components) ==
    LET scored_components ==
            [i \in 1..Len(components) |->
                [score |-> calculate_similarity_score(element, components[i]),
                 component |-> components[i]]]
        sorted == sort_reverse(scored_components, 1, <<>>)
        top_components == SubSeq(sorted, 1, Min(SuggestionLimit, Len(sorted)))
        kept == SelectSeq(top_components,
                          LAMBDA sc : sc.score >= SuggestionThreshold)
    IN  [i \in 1..Len(kept) |->
            [component |-> kept[i].component.name,
             confidence |-> kept[i].score,
             reason |-> get_suggestion_reason(element, kept[i].component,
                                              kept[i].score),
             example |-> generate_component_example(kept[i].component, <<>>)]]

generate_element_suggestions(element, components) ==
    LET scored_components ==
            [i \in 1..Len(components) |->
                [score |-> calculate_similarity_score(element, components[i]),
                 component |-> components[i]]]
        sorted == sort_reverse(scored_components, 1, <<>>)
        top_components == SubSeq(sorted, 1, Min(SuggestionLimit, Len(sorted)))
        kept == SelectSeq(top_components,
                          LAMBDA sc : sc.score > SuggestionThreshold)
    IN  [i \in 1..Len(kept) |->
            [component |-> kept[i].component.name,
             confidence |-> kept[i].score,
             reason |-> get_suggestion_reason(element, kept[i].component,
                                              kept[i].score),
             example |-> generate_component_example(kept[i].component, <<>>)]]

-----------------------------------------------------------------------------
(* Python number formatting.                                               *)

Digits == <<"0","1","2","3","4","5","6","7","8","9">>

RECURSIVE str_int(_)
str_int(n) ==
    IF n < 10 THEN <<Digits[n + 1]>>
    ELSE str_int(n \div 10) \o <<Digits[(n % 10) + 1]>>

\* round(num / den * scale), ties to even
round_div(num, den, scale) ==
    LET q == (num * scale) \div den
        r == (num * scale) % den
    IN  IF 2 * r > den \/ (2 * r = den /\ q % 2 = 1) THEN q + 1 ELSE q

\* f"{(a / b * 100):.1f}%"
format_rate(a, b) ==
    LET tenths == round_div(a, b, 1000)
    IN  str_int(tenths \div 10) \o <<".">> \o str_int(tenths % 10) \o <<"%">>

s_zero_percent == <<"0","%">>

-----------------------------------------------------------------------------
(* map_components._map_elements_to_components                              *)

\* is_mappable with the is_frame disjunct lost
is_mappable_without_frames(elem) ==
    \/ elem.is_instance
    \/ elem.is_text
    \/ elem.type \in {"RECTANGLE", "ELLIPSE", "VECTOR"}

is_mappable(elem) ==
    \/ elem.is_instance
    \/ elem.is_text
    \/ elem.is_frame
    \/ elem.type \in {"RECTANGLE", "ELLIPSE", "VECTOR"}

\* find_best_match with `score >= best_score`: the last maximal score wins
RECURSIVE find_last_best_match(_, _, _, _, _, _)
find_last_best_match(element, components, floor, i, best_score, best_match) ==
    IF i > Len(components)
    THEN [best_score |-> best_score, best_match |-> best_match]
    ELSE LET the_score == calculate_similarity_score(element, components[i])
         IN  IF the_score >= best_score /\ the_score >= floor
             THEN find_last_best_match(element, components, floor, i + 1,
                                       the_score, i)
             ELSE find_last_best_match(element, components, floor, i + 1,
                                       best_score, best_match)

\* the inner loop `for component in design_system_components` from its
\* i-th iteration on; best_match is an index into the catalog, 0 for None
RECURSIVE find_best_match(_, _, _, _, _, _)
find_best_match(element, components, floor, i, best_score, best_match) ==
    IF i > Len(components)
    THEN [best_score |-> best_score, best_match |-> best_match]
    ELSE LET the_score == calculate_similarity_score(element, components[i])
         IN  IF the_score > best_score /\ the_score >= floor
             THEN find_best_match(element, components, floor, i + 1,
                                  the_score, i)
             ELSE find_best_match(element, components, floor, i + 1,
                                  best_score, best_match)

unmapped_entry(element, components, best) ==
    [element |-> element,
     best_score |-> IF best.best_match # 0 THEN best.best_score ELSE 0,
     reason |-> IF best.best_match # 0
                THEN "No component meets minimum confidence"
                ELSE "No suitable component found",
     suggestions |-> generate_element_suggestions(element, components)]

\* the loop `for element in mappable_elements` from its i-th iteration on;
\* acc is [raised, mappings, unmapped_elements]
RECURSIVE map_loop(_, _, _, _, _)
map_loop(mappable_elements, components, floor, i, acc) ==
    IF i > Len(mappable_elements) \/ acc.raised
    THEN acc
    ELSE LET element == mappable_elements[i]
             best == find_best_match(element, components, floor, 1, 0, 0)
         IN  IF best.best_match # 0 /\ best.best_score >= floor
             THEN LET mapping == create_mapping(element,
                                     components[best.best_match],
                                     best.best_score)
                  IN  IF mapping.raised
                      THEN [acc EXCEPT !.raised = TRUE]
                      ELSE map_loop(mappable_elements, components, floor,
                               i + 1,
                               [acc EXCEPT !.mappings = Append(@, mapping.value)])
             ELSE map_loop(mappable_elements, components, floor, i + 1,
                      [acc EXCEPT !.unmapped_elements =
                          Append(@, unmapped_entry(element, components, best))])

\* component_mappings: component name -> the mappings to it (as indices
\* into mappings), keys in insertion order
RECURSIVE group_by_component(_, _, _)
group_by_component(the_mappings, i, groups) ==
    IF i > Len(the_mappings) THEN groups
    ELSE LET component_name == the_mappings[i].matched_component.name
             old == IF component_name \in dict_keys(groups)
                    THEN groups[CHOOSE g \in 1..Len(groups) :
                                    groups[g].k = component_name].v
                    ELSE <<>>
         IN  group_by_component(the_mappings, i + 1,
                 dict_set(groups, component_name, Append(old, i)))

RECURSIVE sum_confidence(_)
sum_confidence(the_mappings) ==
    IF the_mappings = <<>> THEN 0
    ELSE Head(the_mappings).confidence + sum_confidence(Tail(the_mappings))

\* the returned dict, from the lists the loop has built (done);
\* average_confidence is in hundredths
mapping_report(mappable_elements, done) ==
    [mappings |-> done.mappings,
     unmapped_elements |-> done.unmapped_elements,
     component_mappings |-> group_by_component(done.mappings, 1, <<>>),
     successfully_mapped |-> Len(done.mappings),
     total_mappable_elements |-> Len(mappable_elements),
     mapping_rate |->
        IF mappable_elements # <<>>
        THEN format_rate(Len(done.mappings), Len(mappable_elements))
        ELSE s_zero_percent,
     average_confidence |->
        IF done.mappings # <<>>
        THEN round_div(sum_confidence(done.mappings), Len(done.mappings), 100)
        ELSE 0]

\* the lists before the loop
no_mappings == [raised |-> FALSE, mappings |-> <<>>, unmapped_elements |-> <<>>]

\* the mapper with min_confidence not applied (a floor of 0 instead)
map_elements_ignoring_floor(elements, components, floor) ==
    LET mappable_elements == SelectSeq(elements, is_mappable)
        done == map_loop(mappable_elements, components, 0, 1, no_mappings)
    IN  IF done.raised
        THEN [raised |-> TRUE, value |-> NoReport]
        ELSE [raised |-> FALSE, value |-> mapping_report(mappable_elements, done)]

\* the mapper returning before its loop when the catalog is empty
map_elements_skipping_empty_catalog(elements, components, floor) ==
    LET mappable_elements == SelectSeq(elements, is_mappable)
        done == IF components = <<>>
                THEN no_mappings
                ELSE map_loop(mappable_elements, components, floor, 1, no_mappings)
    IN  IF done.raised
        THEN [raised |-> TRUE, value |-> NoReport]
        ELSE [raised |-> FALSE, value |-> mapping_report(mappable_elements, done)]

\* the result is [raised, value]
map_elements_to_components(elements, components, floor) ==
    LET mappable_elements == SelectSeq(elements, is_mappable)
        done == map_loop(mappable_elements, components, floor, 1, no_mappings)
    IN  IF done.raised
        THEN [raised |-> TRUE, value |-> NoReport]
        ELSE [raised |-> FALSE, value |-> mapping_report(mappable_elements, done)]

-----------------------------------------------------------------------------
(* The iteration orders a run can give to the sets it joins: every         *)
(* permutation of the keys that occur in a joined set of the report.  A    *)
(* set of str iterates in the order of its members' hashes, which the      *)
(* interpreter seeds anew for every process, so two calls served by two    *)
(* processes can join the same set in two orders.                          *)

joined_keys(report) ==
    UNION { UNION { report.mappings[m].mapping_notes[n].names :
                      n \in 1..Len(report.mappings[m].mapping_notes) } :
            m \in 1..Len(report.mappings) }

Orders(S) ==
    { o \in [1..Cardinality(S) -> S] :
        \A i, j \in 1..Cardinality(S) : i # j => o[i] # o[j] }

join_notes(report, order) ==
    [report EXCEPT !.mappings =
        [m \in 1..Len(report.mappings) |->
            [report.mappings[m] EXCEPT !.mapping_notes =
                [n \in 1..Len(report.mappings[m].mapping_notes) |->
                    [note |-> report.mappings[m].mapping_notes[n].note,
                     names |-> join_set(report.mappings[m].mapping_notes[n].names,
                                        order)]]]]]

-----------------------------------------------------------------------------
(* Inputs of the mapping runs: a document whose root has at most           *)
(* MaxChildren children, a catalog of at most MaxCatalog components, and a *)
(* confidence floor.                                                       *)

DocumentRoot == Node(TRUE, n_Document, "DOCUMENT", "", <<>>)

NodeInputs ==
    { Node(TRUE, n_PrimaryButton, "INSTANCE", "", <<>>),
      Node(TRUE, n_Title, "TEXT", "Submit", <<>>),
      Node(TRUE, n_Title, "TEXT", "", <<>>) }

\* node types of the Figma file format
NodeTypes ==
    {"DOCUMENT", "CANVAS", "FRAME", "GROUP", "VECTOR", "ELLIPSE", "RECTANGLE",
     "TEXT", "COMPONENT", "COMPONENT_SET", "INSTANCE"}

ComponentInputs ==
    { Component(n_Button, TRUE, <<>>, <<>>),
      Component(n_Primary, FALSE, <<>>, <<>>),
      Component(n_Title, TRUE,
                <<Prop(k_size, FALSE), Prop(k_label, FALSE)>>, <<>>),
      Component(n_TitleButton, TRUE,
                <<Prop(k_size, TRUE), Prop(k_type, TRUE)>>, <<>>) }

MinConfidenceInputs == {0, 30, 60}

StarDocument(children) ==
    <<[DocumentRoot EXCEPT !.children = [i \in 1..Len(children) |-> i + 1]]>>
    \o children

SeqsUpTo(S, n) == UNION { [1..k -> S] : k \in 0..n }

\* the documents with at most MaxChildren children drawn from NodeInputs,
\* and one document per node type with a single child of that type
DocumentInputs ==
    { StarDocument(c) : c \in SeqsUpTo(NodeInputs, MaxChildren) }
    \cup { StarDocument(<<Node(TRUE, n_Button, t, "", <<>>)>>) : t \in NodeTypes }

\* the catalogs of at most MaxCatalog distinct components, in every order
CatalogInputs ==
    { c \in SeqsUpTo(ComponentInputs, MaxCatalog) :
        \A i, j \in 1..Len(c) : i # j => c[i] # c[j] }

Init ==
    /\ pc = "start"
    /\ document \in DocumentInputs
    /\ design_system_components \in CatalogInputs
    /\ min_confidence \in MinConfidenceInputs
    /\ layout_elements = <<>>
    /\ flat_elements = <<>>
    /\ mappings = NoReport
    /\ prev_mappings = NoReport
    /\ figma_element = NoElement
    /\ design_system_component = NoComponent
    /\ score = 0
    /\ IdleAnalysis

\* a call _map_elements_to_components(layout_elements,
\* design_system_components, min_confidence), the first or the second on
\* these inputs; an exception leaves no report
MapElementsToComponents ==
    /\ pc \in {"extracted", "mapped"}
    /\ LET result == map_elements_to_components(layout_elements,
                         design_system_components, min_confidence)
       IN  IF result.raised
           THEN /\ pc' = "raised"
                /\ mappings' = NoReport
           ELSE /\ pc' = IF pc = "extracted" THEN "mapped" ELSE "mapped_twice"
                /\ \E order \in Orders(joined_keys(result.value)) :
                      mappings' = join_notes(result.value, order)
    /\ prev_mappings' = mappings
    /\ UNCHANGED <<document, design_system_components, min_confidence,
                   layout_elements, flat_elements, figma_element,
                   design_system_component, score>>
    /\ UNCHANGED analysis_vars

Next == ExtractLayoutElements \/ MapElementsToComponents

Spec == Init /\ [][Next]_vars

-----------------------------------------------------------------------------
(* What the claims speak about.                                            *)

\* a mapper run has returned a report
Reported == pc \in {"mapped", "mapped_twice"}

MappableKinds == {"INSTANCE", "TEXT", "FRAME", "RECTANGLE", "ELLIPSE", "VECTOR"}

MappableIds ==
    { layout_elements[i].id :
        i \in { j \in 1..Len(layout_elements) :
                  layout_elements[j].type \in MappableKinds } }

ElementOf(id) ==
    layout_elements[CHOOSE i \in 1..Len(layout_elements) :
                        layout_elements[i].id = id]

MappingsOf(id) ==
    { m \in 1..Len(mappings.mappings) :
        mappings.mappings[m].figma_element.id = id }

UnmappedOf(id) ==
    { u \in 1..Len(mappings.unmapped_elements) :
        mappings.unmapped_elements[u].element.id = id }

ScoreAgainst(element, c) ==
    calculate_similarity_score(element, design_system_components[c])

\* the largest score of the element over the catalog (the catalog not empty)
MaxScoreOf(element) ==
    CHOOSE s \in { ScoreAgainst(element, c) :
                     c \in 1..Len(design_system_components) } :
        \A c \in 1..Len(design_system_components) : ScoreAgainst(element, c) <= s

\* the first component, in catalog order, that attains the largest score
FirstMaxOf(element) ==
    CHOOSE c \in 1..Len(design_system_components) :
        /\ ScoreAgainst(element, c) = MaxScoreOf(element)
        /\ \A d \in 1..(c - 1) : ScoreAgainst(element, d) < MaxScoreOf(element)

-----------------------------------------------------------------------------
(* C1: every entry of the report's mappings has a confidence that is at    *)
(* least the min_confidence the mapper was called with.                    *)
C1_ConfidenceAtLeastFloor ==
    Reported =>
        \A m \in 1..Len(mappings.mappings) :
            mappings.mappings[m].confidence >= min_confidence

\* a mapping whose confidence is exactly a positive floor
C1_Witness ==
    /\ Reported
    /\ min_confidence > 0
    /\ \E m \in 1..Len(mappings.mappings) :
          mappings.mappings[m].confidence = min_confidence

(* C2: after the mapper, every element of kind INSTANCE, TEXT, FRAME,      *)
(* RECTANGLE, ELLIPSE or VECTOR is in exactly one of mappings and          *)
(* unmapped_elements, every element of another kind is in neither, and     *)
(* len(mappings) + len(unmapped_elements) = total_mappable_elements.       *)
C2_MappablePartition ==
    Reported =>
        /\ \A i \in 1..Len(layout_elements) :
              LET id == layout_elements[i].id
              IN  Cardinality(MappingsOf(id)) + Cardinality(UnmappedOf(id))
                    = IF layout_elements[i].type \in MappableKinds THEN 1 ELSE 0
        /\ Len(mappings.mappings) + Len(mappings.unmapped_elements)
              = mappings.total_mappable_elements
        /\ mappings.total_mappable_elements = Cardinality(MappableIds)

\* a report with a mapped element, an unmapped element and an element of
\* another kind
C2_Witness ==
    /\ Reported
    /\ Len(mappings.mappings) >= 1
    /\ Len(mappings.unmapped_elements) >= 1
    /\ \E i \in 1..Len(layout_elements) :
          layout_elements[i].type \notin MappableKinds

(* C3: a mappable element gets a Mapping if and only if its largest score  *)
(* over the catalog is >= min_confidence, the cases score = min_confidence *)
(* and min_confidence = 0 with a largest score of 0 included; otherwise it *)
(* gets an UnmappedElement.                                                *)
C3_MappedIffMaxAtLeastFloor ==
    Reported =>
        \A id \in MappableIds :
            LET qualifies ==
                    /\ design_system_components # <<>>
                    /\ MaxScoreOf(ElementOf(id)) >= min_confidence
            IN  /\ (MappingsOf(id) # {}) <=> qualifies
                /\ (UnmappedOf(id) # {}) <=> ~qualifies

(* C4: the matched component of a Mapping is the first component, in       *)
(* catalog order, that attains the element's largest score, and the        *)
(* Mapping's confidence is that score.                                     *)
C4_FirstMaximalComponentWins ==
    Reported =>
        \A m \in 1..Len(mappings.mappings) :
            LET element == ElementOf(mappings.mappings[m].figma_element.id)
            IN  /\ mappings.mappings[m].confidence = MaxScoreOf(element)
                /\ mappings.mappings[m].matched_component =
                      matched_component_info(
                          design_system_components[FirstMaxOf(element)])

\* a mapping of an element for which two components of different names tie
\* at the largest score
C4_Witness ==
    /\ Reported
    /\ \E m \in 1..Len(mappings.mappings) :
          LET element == ElementOf(mappings.mappings[m].figma_element.id)
          IN  \E c, d \in 1..Len(design_system_components) :
                /\ c < d
                /\ ScoreAgainst(element, c) = MaxScoreOf(element)
                /\ ScoreAgainst(element, d) = MaxScoreOf(element)
                /\ design_system_components[c].name
                      # design_system_components[d].name

(* C5: calculate_similarity_score returns a value between 0 and 100, and  *)
(* a call leaves both of its arguments as they were.                       *)
C5_ScoreWithinBounds ==
    /\ [](pc = "scored" => (score >= 0 /\ score <= max_score))
    /\ [][/\ figma_element' = figma_element
          /\ design_system_component' = design_system_component]_vars

\* a call that has added the name, instance and variants bonuses
C5_Witness ==
    /\ pc = "scored"
    /\ figma_element.is_instance /\ figma_element.has_instanceOf
    /\ design_system_component.has_variants
    /\ score = 45

(* C6: with the catalog of the single component "Button" without props, an *)
(* INSTANCE element named "Primary Button" and min_confidence = 60, the    *)
(* mapper emits a Mapping of that element with confidence >= 70 whose      *)
(* props_mapping has variant = "primary".                                  *)
ButtonOnlyCatalog ==
    design_system_components = <<Component(n_Button, TRUE, <<>>, <<>>)>>

PrimaryButtonIds ==
    { layout_elements[i].id :
        i \in { j \in 1..Len(layout_elements) :
                  /\ layout_elements[j].name = n_PrimaryButton
                  /\ layout_elements[j].type = "INSTANCE" } }

HasVariantPrimary(mapping) ==
    <<k_variant, "primary">> \in dict_items(mapping.props_mapping)

C7_EmptyCatalogOrNoMappable ==
    /\ (pc \in {"mapped", "mapped_twice", "raised"}
          /\ design_system_components = <<>>) =>
            /\ Reported
            /\ mappings.mappings = <<>>
            /\ Len(mappings.unmapped_elements) = Cardinality(MappableIds)
            /\ \A id \in MappableIds : Cardinality(UnmappedOf(id)) = 1
            /\ \A u \in 1..Len(mappings.unmapped_elements) :
                  mappings.unmapped_elements[u].suggestions = <<>>
    /\ (pc \in {"mapped", "mapped_twice", "raised"} /\ MappableIds = {}) =>
            /\ Reported
            /\ mappings.mappings = <<>>
            /\ mappings.unmapped_elements = <<>>
            /\ mappings.mapping_rate = s_zero_percent

\* an empty catalog and two mappable elements, both reported unmapped
C7_Witness ==
    /\ Reported
    /\ design_system_components = <<>>
    /\ Len(mappings.unmapped_elements) >= 2

(* C8: for a text element that is no instance and whose name triggers no   *)
(* button or input heuristic, with text content t, mapped to a component   *)
(* whose only declared prop among value, text, children, label,            *)
(* placeholder, title is "label", the props binding is exactly {label: t}; *)
(* when the component declares none of them it is {children: t}.           *)
PlainTextElement(element) ==
    /\ element.is_text
    /\ ~element.is_instance
    /\ ~any_keyword_in(<<kw_button, kw_btn, kw_submit, kw_confirm>>,
                       lower(element.name))
    /\ ~any_keyword_in(<<kw_input, kw_field, kw_textfield>>, lower(element.name))

\* the declared props whose name, lower-cased, is a text prop name
DeclaredTextProps(component) ==
    { component.props[i].name :
        i \in { j \in 1..Len(component.props) :
                  \E t \in 1..Len(text_prop_names) :
                      lower(component.props[j].name) = text_prop_names[t] } }

MatchedComponentOf(mapping) ==
    design_system_components[FirstMaxOf(ElementOf(mapping.figma_element.id))]

C9_SecondRunSameReport ==
    pc = "mapped_twice" => mappings = prev_mappings

(* C10: flatten_figma_tree and extract_elements produce exactly one entry  *)
(* per node of the tree, in depth-first pre-order with the children in     *)
(* their given order, every time they are applied to the tree.             *)
parent_of(tree, n) ==
    CHOOSE p \in 1..Len(tree) :
        \E k \in 1..Len(tree[p].children) : tree[p].children[k] = n

child_index(tree, n) ==
    CHOOSE k \in 1..Len(tree[parent_of(tree, n)].children) :
        tree[parent_of(tree, n)].children[k] = n

RECURSIVE subtree_size(_, _)
RECURSIVE sizes_before(_, _, _)

\* the number of nodes in the subtrees of the first k children
sizes_before(tree, children, k) ==
    IF k = 0 THEN 0
    ELSE subtree_size(tree, children[k]) + sizes_before(tree, children, k - 1)

subtree_size(tree, n) ==
    1 + sizes_before(tree, tree[n].children, Len(tree[n].children))

\* the place of node n in the pre-order of the tree
RECURSIVE preorder_position(_, _)
preorder_position(tree, n) ==
    IF n = 1 THEN 1
    ELSE preorder_position(tree, parent_of(tree, n)) + 1
         + sizes_before(tree, tree[parent_of(tree, n)].children,
                        child_index(tree, n) - 1)

IsPreorderOf(list, tree) ==
    /\ Len(list) = Len(tree)
    /\ \A n \in 1..Len(tree) : list[preorder_position(tree, n)].id = n

C10_FlattenIsPreorder ==
    /\ pc \in {"flattened", "extracted_flat"} =>
          IsPreorderOf(flat_elements, document)
    /\ pc = "extracted_flat" => IsPreorderOf(layout_elements, document)

\* a tree whose pre-order is neither its breadth-first order nor the order
\* of its node indices, flattened by both functions
C10_Witness ==
    /\ pc = "extracted_flat"
    /\ Len(document) = 4
    /\ document[1].children = <<2, 3>>
    /\ document[2].children = <<4>>
    /\ [i \in 1..4 |-> flat_elements[i].id] = <<1, 2, 4, 3>>
    /\ [i \in 1..4 |-> layout_elements[i].id] = <<1, 2, 4, 3>>

-----------------------------------------------------------------------------
(* analyze_layout._format_color.  A channel is a rational num/den with a   *)
(* power of two as den, so that the float product channel * 255 is exact.  *)

IdleMapping ==
    /\ document = <<>>
    /\ design_system_components = <<>>
    /\ min_confidence = 0
    /\ layout_elements = <<>>
    /\ flat_elements = <<>>
    /\ mappings = NoReport
    /\ prev_mappings = NoReport
    /\ figma_element = NoElement
    /\ design_system_component = NoComponent
    /\ score = 0

\* a key of the color dict: absent, or a number num/den that the JSON gave
\* as an int (is_float FALSE) or as a float
Number(present, num, den, is_float) ==
    [present |-> present, num |-> num, den |-> den, is_float |-> is_float]

Absent == Number(FALSE, 0, 1, FALSE)

\* color.get(key, default)
get_number(number, default) ==
    IF number.present THEN number ELSE default

\* int(x * 255) for x >= 0: truncation
int_times_255(number) == (number.num * 255) \div number.den

s_rgb_open == <<"r","g","b","(">>
s_rgba_open == <<"r","g","b","a","(">>
s_comma == <<","," ">>
s_close == <<")">>

\* str(x) of the numbers the inputs hold
str_number(number) ==
    IF ~number.is_float THEN str_int(number.num \div number.den)
    ELSE IF number.num % number.den = 0
         THEN str_int(number.num \div number.den) \o <<".","0">>
    ELSE IF 2 * number.num = number.den THEN <<"0",".","5">>
    ELSE IF 4 * number.num = number.den THEN <<"0",".","2","5">>
    ELSE <<"0",".","7","5">>

format_color(a_color) ==
    LET r == int_times_255(get_number(a_color.r, Number(TRUE, 0, 1, FALSE)))
        g == int_times_255(get_number(a_color.g, Number(TRUE, 0, 1, FALSE)))
        b == int_times_255(get_number(a_color.b, Number(TRUE, 0, 1, FALSE)))
        a == get_number(a_color.a, Number(TRUE, 1, 1, FALSE))
    IN  IF a.num = a.den
        THEN s_rgb_open \o str_int(r) \o s_comma \o str_int(g) \o s_comma
                 \o str_int(b) \o s_close
        ELSE s_rgba_open \o str_int(r) \o s_comma \o str_int(g) \o s_comma
                 \o str_int(b) \o s_comma \o str_number(a) \o s_close

ChannelInputs ==
    { Number(TRUE, k, 8, TRUE) : k \in 0..8 } \cup { Number(TRUE, 1, 1, FALSE) }

AlphaInputs ==
    { Absent, Number(TRUE, 1, 1, FALSE), Number(TRUE, 1, 1, TRUE),
      Number(TRUE, 1, 2, TRUE), Number(TRUE, 1, 4, TRUE),
      Number(TRUE, 3, 4, TRUE), Number(TRUE, 0, 1, TRUE) }

ColorInputs ==
    { [r |-> r, g |-> g, b |-> b, a |-> a] :
        r \in ChannelInputs \cup {Absent}, g \in {Number(TRUE, 0, 1, TRUE),
                                                  Number(TRUE, 4, 8, TRUE)},
        b \in {Number(TRUE, 0, 1, TRUE), Number(TRUE, 8, 8, TRUE)},
        a \in AlphaInputs }

InitColor ==
    /\ pc = "color"
    /\ color \in ColorInputs
    /\ color_string = NoValue
    /\ figma_data = NoValue
    /\ styles = NoValue
    /\ IdleMapping /\ IdleSpacing /\ IdleTool /\ IdleExec
    /\ IdleGenerator /\ IdleResponsive

\* a call _format_color(color)
FormatColor ==
    /\ pc = "color"
    /\ color_string' = format_color(color)
    /\ pc' = "formatted"
    /\ UNCHANGED <<color, figma_data, styles>>
    /\ UNCHANGED <<mapping_vars, spacing_vars, tool_vars, exec_vars,
                 generator_vars, responsive_vars>>

NextColor == FormatColor

SpecColor == InitColor /\ [][NextColor]_vars

(* C11: the color string of a solid paint is "rgb(R, G, B)" when its alpha *)
(* is 1 and "rgba(R, G, B, a)" otherwise, where R, G and B are             *)
(* round(channel * 255): a channel of 0.5 gives 128.                       *)
rounded_times_255(number) == round_div(number.num, number.den, 255)

C11_ChannelsRounded ==
    pc = "formatted" =>
        LET r == rounded_times_255(get_number(color.r, Number(TRUE, 0, 1, FALSE)))
            g == rounded_times_255(get_number(color.g, Number(TRUE, 0, 1, FALSE)))
            b == rounded_times_255(get_number(color.b, Number(TRUE, 0, 1, FALSE)))
            a == get_number(color.a, Number(TRUE, 1, 1, FALSE))
        IN  color_string =
              IF a.num = a.den
              THEN s_rgb_open \o str_int(r) \o s_comma \o str_int(g) \o s_comma
                       \o str_int(b) \o s_close
              ELSE s_rgba_open \o str_int(r) \o s_comma \o str_int(g)
                       \o s_comma \o str_int(b) \o s_comma \o str_number(a)
                       \o s_close

-----------------------------------------------------------------------------
(* analyze_layout._analyze_spacing_pattern.  Coordinates are integers, so  *)
(* the 1 px tolerance `abs(d - diffs[0]) < 1` is equality.                 *)

MaxSiblings == 3      \* children of the container handed to the analysis

s_horizontal_equal_spacing ==
    <<"h","o","r","i","z","o","n","t","a","l","_","e","q","u","a","l","_","s","p","a","c","i","n","g","_">>
s_vertical_equal_spacing ==
    <<"v","e","r","t","i","c","a","l","_","e","q","u","a","l","_","s","p","a","c","i","n","g","_">>
s_irregular_spacing ==
    <<"i","r","r","e","g","u","l","a","r","_","s","p","a","c","i","n","g">>
s_px == <<"p","x">>

\* a child node: its absoluteBoundingBox, when it has one
Child(has_bbox, x, y, width) ==
    [has_bbox |-> has_bbox, x |-> x, y |-> y, width |-> width]

\* the loop over children that collects the positions of those with a box
RECURSIVE collect_positions(_, _, _)
collect_positions(the_children, i, positions) ==
    IF i > Len(the_children) THEN positions
    ELSE collect_positions(the_children, i + 1,
             IF the_children[i].has_bbox
             THEN Append(positions, [x |-> the_children[i].x,
                                     y |-> the_children[i].y,
                                     width |-> the_children[i].width])
             ELSE positions)

\* list.sort() of numbers
RECURSIVE insert_number(_, _)
insert_number(sorted, n) ==
    IF sorted = <<>> THEN <<n>>
    ELSE IF n < Head(sorted) THEN <<n>> \o sorted
    ELSE <<Head(sorted)>> \o insert_number(Tail(sorted), n)

RECURSIVE sort_numbers(_, _, _)
sort_numbers(numbers, i, sorted) ==
    IF i > Len(numbers) THEN sorted
    ELSE sort_numbers(numbers, i + 1, insert_number(sorted, numbers[i]))

\* [xs[i+1] - xs[i] for i in range(len(xs) - 1)]
diffs_of(sorted_positions) ==
    [i \in 1..(Len(sorted_positions) - 1) |->
        sorted_positions[i + 1] - sorted_positions[i]]

all_equal_to_first(diffs) ==
    \A i \in 1..Len(diffs) :
        diffs[i] - diffs[1] < 1 /\ diffs[1] - diffs[i] < 1

Pattern(is_none, text) == [is_none |-> is_none, text |-> text]

analyze_spacing_pattern(the_children) ==
    IF Len(the_children) < 2 THEN Pattern(TRUE, <<>>)
    ELSE
    LET positions == collect_positions(the_children, 1, <<>>)
        x_positions == sort_numbers([i \in 1..Len(positions) |-> positions[i].x],
                                    1, <<>>)
        y_positions == sort_numbers([i \in 1..Len(positions) |-> positions[i].y],
                                    1, <<>>)
        x_diffs == diffs_of(x_positions)
        y_diffs == diffs_of(y_positions)
    IN  IF Len(positions) < 2 THEN Pattern(TRUE, <<>>)
        ELSE IF all_equal_to_first(x_diffs)
        THEN Pattern(FALSE, s_horizontal_equal_spacing \o str_int(x_diffs[1])
                                \o s_px)
        ELSE IF all_equal_to_first(y_diffs)
        THEN Pattern(FALSE, s_vertical_equal_spacing \o str_int(y_diffs[1])
                                \o s_px)
        ELSE Pattern(FALSE, s_irregular_spacing)

ChildInputs ==
    { Child(TRUE, x, y, w) : x \in {0, 60, 120}, y \in {0, 10}, w \in {50, 60} }
        \cup { Child(FALSE, 0, 0, 0) }

ChildrenInputs ==
    UNION { [1..n -> ChildInputs] : n \in 1..MaxSiblings }

InitSpacing ==
    /\ pc = "children"
    /\ container_children \in ChildrenInputs
    /\ spacing_pattern = NoValue
    /\ IdleMapping /\ IdleStyle /\ IdleTool /\ IdleExec
    /\ IdleGenerator /\ IdleResponsive

\* a call _analyze_spacing_pattern(children)
AnalyzeSpacingPattern ==
    /\ pc = "children"
    /\ spacing_pattern' = analyze_spacing_pattern(container_children)
    /\ pc' = "analyzed"
    /\ UNCHANGED container_children
    /\ UNCHANGED <<mapping_vars, style_vars, tool_vars, exec_vars,
                 generator_vars, responsive_vars>>

NextSpacing == AnalyzeSpacingPattern

SpecSpacing == InitSpacing /\ [][NextSpacing]_vars

(* C12: when the children of a container, sorted by x, have consecutive    *)
(* gaps (the next child's x minus the previous child's x + width) that are *)
(* all equal, the spacing pattern is horizontal_equal_spacing_<gap>px with *)
(* that gap: children at x = 0, width 50 and x = 60, width 50 give         *)
(* horizontal_equal_spacing_10px.                                          *)
SortedByX(positions) ==
    CHOOSE order \in [1..Len(positions) -> 1..Len(positions)] :
        /\ \A i, j \in 1..Len(positions) : i # j => order[i] # order[j]
        /\ \A i, j \in 1..Len(positions) :
              i < j => \/ positions[order[i]].x < positions[order[j]].x
                       \/ /\ positions[order[i]].x = positions[order[j]].x
                          /\ order[i] < order[j]

GapsByX(positions) ==
    LET order == SortedByX(positions)
    IN  [i \in 1..(Len(positions) - 1) |->
            positions[order[i + 1]].x
                - (positions[order[i]].x + positions[order[i]].width)]

C12_EqualGapsNamed ==
    pc = "analyzed" =>
        LET positions == collect_positions(container_children, 1, <<>>)
            gaps == GapsByX(positions)
        IN  (/\ Len(positions) = Len(container_children)
             /\ Len(positions) >= 2
             /\ gaps[1] >= 0
             /\ \A i \in 1..Len(gaps) : gaps[i] = gaps[1]) =>
                spacing_pattern =
                    Pattern(FALSE, s_horizontal_equal_spacing
                                       \o str_int(gaps[1]) \o s_px)

-----------------------------------------------------------------------------
(* map_components.map_layout_to_components: the order in which the call    *)
(* validates its arguments and performs its work.  Each await of the call  *)
(* is a step; a step that reaches the Figma API can raise.                 *)

KeyChars ==
    { UpperCase[i] : i \in 1..Len(UpperCase) }
        \cup { LowerCase[i] : i \in 1..Len(LowerCase) }
        \cup { Digits[i] : i \in 1..Len(Digits) } \cup {"_", "-"}

\* re.match(r'^[a-zA-Z0-9_-]{10,40}$', file_key)
key_matches(file_key) ==
    /\ Len(file_key) >= 10
    /\ Len(file_key) <= 40
    /\ \A i \in 1..Len(file_key) : file_key[i] \in KeyChars

\* validators.validate_figma_file_key: the exception it raises, or "ok"
validate_figma_file_key(file_key) ==
    IF file_key = <<>> THEN "ValueError"
    ELSE IF ~key_matches(file_key) THEN "ValueError"
    ELSE "ok"

\* validate_inputs with the lower bound of the range check lost
validate_inputs_upper_bound_only(req) ==
    IF validate_figma_file_key(req.layout_file_key) # "ok" THEN "ValueError"
    ELSE IF validate_figma_file_key(req.design_system_file_key) # "ok"
    THEN "ValueError"
    ELSE IF ~(req.min_confidence <= 100) THEN "ValueError"
    ELSE IF ~req.figma_api THEN "ConnectionError"
    ELSE "ok"

\* the validation that opens the call: the exception it raises, or "ok"
validate_inputs(req) ==
    IF validate_figma_file_key(req.layout_file_key) # "ok" THEN "ValueError"
    ELSE IF validate_figma_file_key(req.design_system_file_key) # "ok"
    THEN "ValueError"
    ELSE IF ~(0 <= req.min_confidence /\ req.min_confidence <= 100)
    THEN "ValueError"
    ELSE IF ~req.figma_api THEN "ConnectionError"
    ELSE "ok"

key_valid == <<"A","b","C","1","2","3","_","-","x","y","z","9">>
key_short == <<"a","b","c">>
key_bad_char == <<"a","b","c"," ","d","e","f","!","1","2","3","4","5","6">>

FileKeyInputs == {<<>>, key_short, key_bad_char, key_valid}

RequestInputs ==
    { [layout_file_key |-> l, design_system_file_key |-> d,
       min_confidence |-> m, figma_api |-> a] :
        l \in FileKeyInputs, d \in FileKeyInputs,
        m \in {0 - 1, 0, 60, 100, 101}, a \in BOOLEAN }

InitTool ==
    /\ pc = "tool_call"
    /\ request \in RequestInputs
    /\ tool_trace = <<>>
    /\ tool_result = "running"
    /\ IdleMapping /\ IdleStyle /\ IdleSpacing /\ IdleExec
    /\ IdleGenerator /\ IdleResponsive

\* the except clause of the call: the error is counted, logged and re-raised
tool_raises(error) ==
    /\ pc' = "tool_raised"
    /\ tool_result' = error
    /\ UNCHANGED tool_trace

\* a step of the call that reaches the Figma API: it is recorded, and it
\* either completes or raises
tool_step(work, next_pc) ==
    /\ tool_trace' = Append(tool_trace, work)
    /\ \E ok \in BOOLEAN :
          IF ok THEN pc' = next_pc /\ UNCHANGED tool_result
                ELSE pc' = "tool_raised" /\ tool_result' = "Exception"

\* entry of the call up to the first await
ValidateInputs ==
    /\ pc = "tool_call"
    /\ IF validate_inputs(request) = "ok"
       THEN pc' = "fetch_layout" /\ UNCHANGED <<tool_trace, tool_result>>
       ELSE tool_raises(validate_inputs(request))
    /\ UNCHANGED <<request, mapping_vars, style_vars, spacing_vars, exec_vars,
                 generator_vars, responsive_vars>>

\* layout_info = await figma_api.get_file(layout_file_key)
FetchLayoutFile ==
    /\ pc = "fetch_layout"
    /\ tool_step("get_file(layout)", "fetch_design_system")
    /\ UNCHANGED <<request, mapping_vars, style_vars, spacing_vars, exec_vars,
                 generator_vars, responsive_vars>>

\* design_system_info = await figma_api.get_file(design_system_file_key)
FetchDesignSystemFile ==
    /\ pc = "fetch_design_system"
    /\ tool_step("get_file(design_system)", "validate_responses")
    /\ UNCHANGED <<request, mapping_vars, style_vars, spacing_vars, exec_vars,
                 generator_vars, responsive_vars>>

\* validate_figma_response on both answers
ValidateResponses ==
    /\ pc = "validate_responses"
    /\ \E ok \in BOOLEAN :
          IF ok THEN pc' = "extract_components"
                     /\ UNCHANGED <<tool_trace, tool_result>>
                ELSE tool_raises("ValueError")
    /\ UNCHANGED <<request, mapping_vars, style_vars, spacing_vars, exec_vars,
                 generator_vars, responsive_vars>>

\* await _extract_design_system_components(design_system_file_key)
ExtractDesignSystemComponents ==
    /\ pc = "extract_components"
    /\ tool_step("extract_components", "extract_elements")
    /\ UNCHANGED <<request, mapping_vars, style_vars, spacing_vars, exec_vars,
                 generator_vars, responsive_vars>>

\* await _extract_layout_elements(layout_file_key)
ExtractElementsOfLayout ==
    /\ pc = "extract_elements"
    /\ tool_step("extract_elements", "map")
    /\ UNCHANGED <<request, mapping_vars, style_vars, spacing_vars, exec_vars,
                 generator_vars, responsive_vars>>

\* await _map_elements_to_components(...): the scoring
MapLayout ==
    /\ pc = "map"
    /\ tool_step("map_elements", "results")
    /\ UNCHANGED <<request, mapping_vars, style_vars, spacing_vars, exec_vars,
                 generator_vars, responsive_vars>>

\* code generation, the results dict, validate_response_size, return
ReturnResults ==
    /\ pc = "results"
    /\ \E ok \in BOOLEAN :
          IF ok THEN /\ pc' = "tool_returned"
                     /\ tool_result' = "report"
                     /\ UNCHANGED tool_trace
                ELSE tool_raises("Exception")
    /\ UNCHANGED <<request, mapping_vars, style_vars, spacing_vars, exec_vars,
                 generator_vars, responsive_vars>>

NextTool ==
    \/ ValidateInputs
    \/ FetchLayoutFile
    \/ FetchDesignSystemFile
    \/ ValidateResponses
    \/ ExtractDesignSystemComponents
    \/ ExtractElementsOfLayout
    \/ MapLayout
    \/ ReturnResults

SpecTool == InitTool /\ [][NextTool]_vars

(* C13: a call of map_layout_to_components with min_confidence below 0 or  *)
(* above 100 raises ValueError before any fetch, catalog extraction,       *)
(* element extraction or scoring, and returns no report.                   *)
C13_OutOfRangeFloorRejectedFirst ==
    (pc # "tool_call"
        /\ (request.min_confidence < 0 \/ request.min_confidence > 100)) =>
            /\ pc = "tool_raised"
            /\ tool_result = "ValueError"
            /\ tool_trace = <<>>

\* a call with well-formed keys, a ready API and a negative floor, rejected
C13_Witness ==
    /\ pc = "tool_raised"
    /\ request.min_confidence < 0
    /\ request.layout_file_key = key_valid
    /\ request.design_system_file_key = key_valid
    /\ request.figma_api
    /\ tool_result = "ValueError"
    /\ tool_trace = <<>>

-----------------------------------------------------------------------------
(* styles_tool._extract_styles_recursive on a tree of at most              *)
(* MaxStyleNodes nodes.  The nodes carry fills, a text style and effects;  *)
(* none carries an absoluteBoundingBox.                                    *)

MaxStyleNodes == 3    \* nodes of a tree handed to the style extraction

StyleNode(type, fills, has_style, style, effects) ==
    [type |-> type, fills |-> fills, has_style |-> has_style, style |-> style,
     effects |-> effects, children |-> <<>>]

Fill(type, has_color, fill_color) ==
    [type |-> type, has_color |-> has_color, color |-> fill_color]

NewDigest ==
    [raised |-> FALSE, error |-> "", colors |-> {}, text_styles |-> {},
     effects |-> {}, layer_count |-> 0]

\* the body of the loop over node['fills']: for a SOLID fill with a color
\* the string is built and then `result['colors'].add(rgla)` looks up the
\* name rgla, which nothing binds
after_fill(result, fill) ==
    IF result.raised THEN result
    ELSE IF fill.type = "SOLID" /\ fill.has_color
    THEN [result EXCEPT !.raised = TRUE, !.error = "NameError"]
    ELSE result

RECURSIVE after_fills(_, _, _)
after_fills(result, fills, i) ==
    IF i > Len(fills) THEN result
    ELSE after_fills(after_fill(result, fills[i]), fills, i + 1)

\* the text style of a TEXT node that has a 'style' key
after_text_style(result, node) ==
    IF result.raised THEN result
    ELSE IF node.has_style /\ node.type = "TEXT"
    THEN [result EXCEPT !.text_styles = @ \cup {node.style}]
    ELSE result

s_px_space == <<"p","x"," ">>

\* the shadow string of a DROP_SHADOW effect
shadow_string(effect) ==
    str_int(effect.x) \o s_px_space \o str_int(effect.y) \o s_px_space
        \o str_int(effect.radius) \o s_px_space \o s_rgba_open
        \o str_int(int_times_255(effect.color.r)) \o s_comma
        \o str_int(int_times_255(effect.color.g)) \o s_comma
        \o str_int(int_times_255(effect.color.b)) \o s_comma
        \o str_number(get_number(effect.color.a, Number(TRUE, 1, 1, FALSE)))
        \o s_close

RECURSIVE after_effects(_, _, _)
after_effects(result, effects, i) ==
    IF result.raised \/ i > Len(effects) THEN result
    ELSE after_effects(
             IF effects[i].type = "DROP_SHADOW"
             THEN [result EXCEPT !.effects = @ \cup {shadow_string(effects[i])}]
             ELSE result,
             effects, i + 1)

RECURSIVE extract_styles_recursive(_, _, _)
RECURSIVE extract_styles_children(_, _, _, _)

\* the loop `for child in node['children']` from its i-th iteration on
extract_styles_children(tree, the_children, i, result) ==
    IF result.raised \/ i > Len(the_children) THEN result
    ELSE extract_styles_children(tree, the_children, i + 1,
             extract_styles_recursive(tree, the_children[i], result))

extract_styles_recursive(tree, n, result) ==
    LET counted == [result EXCEPT !.layer_count = @ + 1]
        filled == after_fills(counted, tree[n].fills, 1)
        styled == after_text_style(filled, tree[n])
        shadowed == after_effects(styled, tree[n].effects, 1)
    IN  extract_styles_children(tree, tree[n].children, 1, shadowed)

Red == [r |-> Number(TRUE, 1, 1, FALSE), g |-> Number(TRUE, 0, 1, FALSE),
        b |-> Number(TRUE, 0, 1, FALSE), a |-> Number(TRUE, 1, 1, FALSE)]

Shade == [r |-> Number(TRUE, 0, 1, FALSE), g |-> Number(TRUE, 0, 1, FALSE),
          b |-> Number(TRUE, 0, 1, FALSE), a |-> Number(TRUE, 1, 4, TRUE)]

NoStyle == [font_family |-> "", font_size |-> 0, font_weight |-> 400,
            line_height |-> 0]

StyleNodeInputs ==
    { StyleNode("FRAME", <<>>, FALSE, NoStyle, <<>>),
      StyleNode("RECTANGLE", <<Fill("SOLID", TRUE, Red)>>, FALSE, NoStyle, <<>>),
      StyleNode("RECTANGLE", <<Fill("GRADIENT_LINEAR", FALSE, Red),
                               Fill("SOLID", FALSE, Red)>>, FALSE, NoStyle, <<>>),
      StyleNode("TEXT", <<>>, TRUE,
                [font_family |-> "Inter", font_size |-> 14,
                 font_weight |-> 400, line_height |-> 20], <<>>),
      StyleNode("FRAME", <<>>, TRUE, NoStyle,
                <<[type |-> "DROP_SHADOW", x |-> 0, y |-> 4, radius |-> 8,
                   color |-> Shade],
                  [type |-> "LAYER_BLUR", x |-> 0, y |-> 0, radius |-> 4,
                   color |-> Shade]>>) }

StyleTreeInputs ==
    UNION { { BuildTree(N, par, templ) :
                par \in ParentFns(N), templ \in [1..N -> StyleNodeInputs] } :
            N \in 1..MaxStyleNodes }

InitStyles ==
    /\ pc = "figma_data"
    /\ figma_data \in StyleTreeInputs
    /\ styles = NoValue
    /\ color = NoValue
    /\ color_string = NoValue
    /\ IdleMapping /\ IdleSpacing /\ IdleTool /\ IdleExec
    /\ IdleGenerator /\ IdleResponsive

\* a call _extract_styles_recursive(document): result defaults to None, so
\* the call starts from a fresh digest
ExtractStylesRecursive ==
    /\ pc = "figma_data"
    /\ styles' = extract_styles_recursive(figma_data, 1, NewDigest)
    /\ pc' = "styled"
    /\ UNCHANGED <<figma_data, color, color_string>>
    /\ UNCHANGED <<mapping_vars, spacing_vars, tool_vars, exec_vars,
                 generator_vars, responsive_vars>>

NextStyles == ExtractStylesRecursive

SpecStyles == InitStyles /\ [][NextStyles]_vars

(* C14: on every tree, trees whose nodes carry SOLID fills with a color,   *)
(* text styles or drop shadows included, _extract_styles_recursive raises  *)
(* no exception and returns a digest whose layer_count is the number of    *)
(* nodes of the tree.                                                      *)
C14_StylesNeverFail ==
    pc = "styled" =>
        /\ ~styles.raised
        /\ styles.layer_count = Len(figma_data)

-----------------------------------------------------------------------------
(* agent_task_manager.MyAgentExecutor.execute, one step per item of the    *)
(* agent stream.  The executor is one whose agent and logger attributes    *)
(* are set: execute reads both.  (__init__ itself sets logger from the     *)
(* name logging, which the module does not import.)  TaskUpdater           *)
(* .update_status enqueues a status event that carries the task id and     *)
(* the context id the updater was built with.                              *)

MaxStream == 2        \* steps of the agent stream

s_Error == <<"E","r","r","o","r",":"," ">>
e_stream_error == <<"S","t","r","e","a","m"," ","e","r","r","o","r">>
c_content == <<"P","r","o","c","e","s","s","i","n","g",".",".",".">>

Item(is_task_complete, require_user_input, is_error, is_event) ==
    [kind |-> "item", is_task_complete |-> is_task_complete,
     require_user_input |-> require_user_input, is_error |-> is_error,
     is_event |-> is_event, content |-> c_content]

\* a step at which the stream raises Exception(text) instead of yielding
Raise(text) ==
    [kind |-> "raise", is_task_complete |-> FALSE,
     require_user_input |-> FALSE, is_error |-> FALSE, is_event |-> FALSE,
     content |-> text]

\* new_task(context.message): a fresh task in the context of the message
new_task(message) == [id |-> "new-task", context_id |-> message.context_id]

\* the task execute works on
task_of(ctx) == IF ctx.has_task THEN ctx.current_task ELSE new_task(ctx.message)

TaskEvent(task) ==
    [kind |-> "task", state |-> "submitted", task_id |-> task.id,
     context_id |-> task.context_id, text |-> <<>>]

\* updater.update_status(state, new_agent_text_message(text, context_id, id))
StatusEvent(state, text, task) ==
    [kind |-> "status", state |-> state, task_id |-> task.id,
     context_id |-> task.context_id, text |-> text]

\* enqueued_at_start without the test `if not task`
enqueued_at_start_always(ctx) == <<TaskEvent(task_of(ctx))>>

\* what execute enqueues before it opens the stream
enqueued_at_start(ctx) ==
    IF ~ctx.has_task THEN <<TaskEvent(task_of(ctx))>> ELSE <<>>

\* state_for_item testing is_event before is_error
state_for_item_event_first(item) ==
    IF item.is_event THEN [state |-> "working", stop |-> FALSE]
    ELSE IF item.is_error THEN [state |-> "failed", stop |-> TRUE]
    ELSE IF ~item.is_task_complete /\ ~item.require_user_input
    THEN [state |-> "working", stop |-> FALSE]
    ELSE IF ~item.is_task_complete /\ item.require_user_input
    THEN [state |-> "input_required", stop |-> TRUE]
    ELSE IF item.is_task_complete /\ ~item.require_user_input
    THEN [state |-> "completed", stop |-> TRUE]
    ELSE [state |-> "", stop |-> FALSE]

\* the body of the loop for one item: the state it reports ("" for none)
\* and whether it breaks out of the loop
state_for_item(item) ==
    IF item.is_error THEN [state |-> "failed", stop |-> TRUE]
    ELSE IF item.is_event THEN [state |-> "working", stop |-> FALSE]
    ELSE IF ~item.is_task_complete /\ ~item.require_user_input
    THEN [state |-> "working", stop |-> FALSE]
    ELSE IF ~item.is_task_complete /\ item.require_user_input
    THEN [state |-> "input_required", stop |-> TRUE]
    ELSE IF item.is_task_complete /\ ~item.require_user_input
    THEN [state |-> "completed", stop |-> TRUE]
    ELSE [state |-> "", stop |-> FALSE]

\* on_exception letting the exception through
on_exception_reraising(text, task) ==
    [propagates |-> TRUE, events |-> <<>>]

\* the clause `except Exception as e`
on_exception(text, task) ==
    [propagates |-> FALSE,
     events |-> <<StatusEvent("failed", s_Error \o text, task)>>]

ItemInputs ==
    { Item(c, r, e, v) : c \in BOOLEAN, r \in BOOLEAN, e \in BOOLEAN,
                         v \in BOOLEAN }
        \cup { Raise(e_stream_error) }

StreamInputs == UNION { [1..n -> ItemInputs] : n \in 0..MaxStream }

ContextInputs ==
    { [has_task |-> h,
       current_task |-> [id |-> "task-123", context_id |-> "context-123"],
       message |-> [context_id |-> "context-of-message"]] : h \in BOOLEAN }

InitExec ==
    /\ pc = "execute"
    /\ context \in ContextInputs
    /\ stream \in StreamInputs
    /\ consumed = 0
    /\ event_queue = <<>>
    /\ returned = "pending"
    /\ IdleMapping /\ IdleStyle /\ IdleSpacing /\ IdleTool
    /\ IdleGenerator /\ IdleResponsive

\* entry of execute up to the creation of the updater
StartExecute ==
    /\ pc = "execute"
    /\ event_queue' = event_queue \o enqueued_at_start(context)
    /\ pc' = "streaming"
    /\ UNCHANGED <<context, stream, consumed, returned>>
    /\ UNCHANGED <<mapping_vars, style_vars, spacing_vars, tool_vars,
                 generator_vars, responsive_vars>>

\* one iteration of `async for item in self.agent.stream(...)`
ConsumeItem ==
    /\ pc = "streaming"
    /\ consumed < Len(stream)
    /\ stream[consumed + 1].kind = "item"
    /\ LET item == stream[consumed + 1]
           update == state_for_item(item)
       IN  /\ event_queue' =
                 IF update.state = "" THEN event_queue
                 ELSE Append(event_queue,
                             StatusEvent(update.state, item.content,
                                         task_of(context)))
           /\ pc' = IF update.stop THEN "returned" ELSE "streaming"
           /\ returned' = IF update.stop THEN "None" ELSE returned
    /\ consumed' = consumed + 1
    /\ UNCHANGED <<context, stream>>
    /\ UNCHANGED <<mapping_vars, style_vars, spacing_vars, tool_vars,
                 generator_vars, responsive_vars>>

\* the stream raises while execute awaits its next item
StreamRaises ==
    /\ pc = "streaming"
    /\ consumed < Len(stream)
    /\ stream[consumed + 1].kind = "raise"
    /\ LET handled == on_exception(stream[consumed + 1].content,
                                   task_of(context))
       IN  /\ event_queue' = event_queue \o handled.events
           /\ returned' = IF handled.propagates THEN "raised" ELSE "None"
    /\ pc' = "returned"
    /\ consumed' = consumed + 1
    /\ UNCHANGED <<context, stream>>
    /\ UNCHANGED <<mapping_vars, style_vars, spacing_vars, tool_vars,
                 generator_vars, responsive_vars>>

\* the stream is exhausted: the loop ends and execute returns
StreamEnds ==
    /\ pc = "streaming"
    /\ consumed = Len(stream)
    /\ pc' = "returned"
    /\ returned' = "None"
    /\ UNCHANGED <<context, stream, consumed, event_queue>>
    /\ UNCHANGED <<mapping_vars, style_vars, spacing_vars, tool_vars,
                 generator_vars, responsive_vars>>

NextExec == StartExecute \/ ConsumeItem \/ StreamRaises \/ StreamEnds

SpecExec == InitExec /\ [][NextExec]_vars

\* the states of the status updates emitted so far, in order
RECURSIVE StatesOf(_)
StatesOf(events) ==
    IF events = <<>> THEN <<>>
    ELSE IF Head(events).kind = "status"
         THEN <<Head(events).state>> \o StatesOf(Tail(events))
         ELSE StatesOf(Tail(events))

TerminalStates == {"failed", "input_required", "completed"}

(* C15: the status updates follow the stream items in order: an item with  *)
(* is_error gives failed; otherwise an item with is_event gives working;   *)
(* otherwise not complete and no input required gives working, not         *)
(* complete and input required gives input_required, complete and no input *)
(* required gives completed; and once failed, input_required or completed  *)
(* is emitted, no further item is consumed and no further status emitted.  *)
ExpectedState(item) ==
    CASE item.kind = "raise" -> "failed"
      [] item.is_error -> "failed"
      [] ~item.is_error /\ item.is_event -> "working"
      [] ~item.is_error /\ ~item.is_event /\ ~item.is_task_complete
            /\ ~item.require_user_input -> "working"
      [] ~item.is_error /\ ~item.is_event /\ ~item.is_task_complete
            /\ item.require_user_input -> "input_required"
      [] ~item.is_error /\ ~item.is_event /\ item.is_task_complete
            /\ ~item.require_user_input -> "completed"
      [] OTHER -> "none"

RECURSIVE ExpectedStates(_, _)
ExpectedStates(items, n) ==
    IF n = 0 THEN <<>>
    ELSE ExpectedStates(items, n - 1)
            \o (IF ExpectedState(items[n]) = "none" THEN <<>>
                ELSE <<ExpectedState(items[n])>>)

C15_StatusesFollowItems ==
    /\ StatesOf(event_queue) = ExpectedStates(stream, consumed)
    /\ \A i \in 1..consumed :
          ExpectedState(stream[i]) \in TerminalStates =>
              i = consumed /\ pc = "returned"

\* an item with is_error and is_event reported failed, the item after it
\* left unconsumed
C15_Witness ==
    /\ pc = "returned"
    /\ consumed = 1
    /\ Len(stream) = 2
    /\ stream[1].kind = "item" /\ stream[1].is_error /\ stream[1].is_event
    /\ StatesOf(event_queue) = <<"failed">>

(* C16: without a current task, a new task is created from the message and *)
(* enqueued exactly once, before any status update; with a current task    *)
(* nothing but status updates is enqueued, and every status update carries *)
(* that task's id and context id.                                          *)
C16_TaskEnqueuedOnceFirst ==
    pc # "execute" =>
        /\ ~context.has_task =>
              /\ Len(event_queue) >= 1
              /\ event_queue[1] = TaskEvent(new_task(context.message))
              /\ \A i \in 2..Len(event_queue) : event_queue[i].kind = "status"
        /\ context.has_task =>
              \A i \in 1..Len(event_queue) :
                  /\ event_queue[i].kind = "status"
                  /\ event_queue[i].task_id = context.current_task.id
                  /\ event_queue[i].context_id = context.current_task.context_id

\* a new task followed by two status updates
C16_Witness ==
    /\ pc = "returned"
    /\ ~context.has_task
    /\ Len(event_queue) = 3
    /\ event_queue[1].kind = "task"
    /\ event_queue[3].kind = "status"

(* C17: when the agent stream raises, execute does not propagate the       *)
(* exception, and exactly one failed status, whose message contains the    *)
(* text of the exception, is emitted as the last status update.            *)
C17_StreamExceptionReported ==
    (pc = "returned" /\ consumed >= 1 /\ stream[consumed].kind = "raise") =>
        /\ returned = "None"
        /\ Len(event_queue) >= 1
        /\ event_queue[Len(event_queue)].kind = "status"
        /\ event_queue[Len(event_queue)].state = "failed"
        /\ in_str(stream[consumed].content, event_queue[Len(event_queue)].text)
        /\ Cardinality({ i \in 1..Len(event_queue) :
                           /\ event_queue[i].kind = "status"
                           /\ event_queue[i].state = "failed" }) = 1

\* a stream that raises after a working update
C17_Witness ==
    /\ pc = "returned"
    /\ consumed = 2
    /\ stream[2].kind = "raise"
    /\ StatesOf(event_queue) = <<"working", "failed">>

-----------------------------------------------------------------------------
(* C18: the scorer adds the +40 kind bonus whenever the element's kind and *)
(* the component's name match the table without regard to case: TEXT with  *)
(* a name containing input, textarea or textfield; RECTANGLE with button,  *)
(* card or container; FRAME with modal, dialog or card; INSTANCE or        *)
(* COMPONENT with component.                                               *)
KindTable(figma_type) ==
    CASE figma_type = "TEXT" ->
            {lower(kw_Input), lower(kw_TextArea), lower(kw_TextField)}
      [] figma_type = "RECTANGLE" ->
            {lower(kw_Button), lower(kw_Card), lower(kw_Container)}
      [] figma_type = "FRAME" ->
            {lower(kw_Modal), lower(kw_Dialog), lower(kw_Card)}
      [] figma_type \in {"INSTANCE", "COMPONENT"} -> {lower(kw_Component)}
      [] OTHER -> {}

KindMatches(element, component) ==
    \E word \in KindTable(element.type) : in_str(word, lower(component.name))

C18_KindBonusIgnoresCase ==
    (pc = "scored" /\ KindMatches(figma_element, design_system_component)) =>
        score >= 40

(* C19: for elements built by _extract_layout_elements and components      *)
(* shaped as _extract_design_system_components builds them, the score      *)
(* includes +10 when the element's kind is INSTANCE and +5 when the        *)
(* component has a non-empty variants list.                                *)
C19_InstanceAndVariantBonuses ==
    pc \in {"extracted", "mapped", "mapped_twice", "raised"} =>
        \A i \in 1..Len(layout_elements) :
            \A c \in 1..Len(design_system_components) :
                LET element == layout_elements[i]
                    component == design_system_components[c]
                    base == name_score(lower(element.name), lower(component.name))
                              + type_score(element.type, lower(component.name))
                IN  ScoreAgainst(element, c) =
                        Min(base
                              + (IF element.type = "INSTANCE" THEN 10 ELSE 0)
                              + (IF component.variants # <<>> THEN 5 ELSE 0),
                            max_score)

-----------------------------------------------------------------------------
(* The mapper called with one element and a catalog of up to               *)
(* MaxSuggestions components, as a caller of _map_elements_to_components   *)
(* can hand them over: the element may carry the key instanceOf and a      *)
(* component the key has_variants.                                         *)

MaxSuggestions == 4   \* components in the catalog of a suggestion run

GivenElement(name, type, has_instanceOf) ==
    [element_info(<<Node(TRUE, name, type, "", <<>>)>>, 1, <<>>)
        EXCEPT !.has_instanceOf = has_instanceOf]

GivenComponent(name, has_variants) ==
    [Component(name, TRUE, <<>>, <<>>) EXCEPT !.has_variants = has_variants]

SuggestElementInputs ==
    { GivenElement(n_PrimaryButton, "INSTANCE", TRUE),
      GivenElement(n_PrimaryButton, "INSTANCE", FALSE),
      GivenElement(n_Title, "TEXT", FALSE) }

SuggestComponentInputs ==
    { GivenComponent(n_Button, TRUE), GivenComponent(n_Primary, TRUE),
      GivenComponent(n_Button, FALSE), GivenComponent(n_Card, TRUE) }

InitSuggest ==
    /\ pc = "extracted"
    /\ document = <<>>
    /\ layout_elements \in { <<e>> : e \in SuggestElementInputs }
    /\ design_system_components \in
          UNION { [1..n -> SuggestComponentInputs] : n \in 0..MaxSuggestions }
    /\ min_confidence \in {40, 100}
    /\ flat_elements = <<>>
    /\ mappings = NoReport
    /\ prev_mappings = NoReport
    /\ figma_element = NoElement
    /\ design_system_component = NoComponent
    /\ score = 0
    /\ IdleAnalysis

NextSuggest == MapElementsToComponents

SpecSuggest == InitSuggest /\ [][NextSuggest]_vars

(* C20: the suggestions of an unmapped element are at most 3, they are the *)
(* highest-scoring components of the catalog among those that score more   *)
(* than 30, in non-increasing order of score, equal scores in catalog      *)
(* order, and no component that scores 30 or less is suggested.            *)
Suggestable(element) ==
    { c \in 1..Len(design_system_components) : ScoreAgainst(element, c) > 30 }

\* the number of suggestable components that come before c
RankOf(element, c) ==
    Cardinality({ d \in Suggestable(element) :
                    \/ ScoreAgainst(element, d) > ScoreAgainst(element, c)
                    \/ /\ ScoreAgainst(element, d) = ScoreAgainst(element, c)
                       /\ d < c })

C20_SuggestionsTopThree ==
    Reported =>
        \A u \in 1..Len(mappings.unmapped_elements) :
            LET element == mappings.unmapped_elements[u].element
                suggestions == mappings.unmapped_elements[u].suggestions
            IN  /\ Len(suggestions) = Min(3, Cardinality(Suggestable(element)))
                /\ \A i \in 1..Len(suggestions) :
                      /\ suggestions[i].confidence > 30
                      /\ \E c \in Suggestable(element) :
                            /\ RankOf(element, c) = i - 1
                            /\ suggestions[i].component
                                  = design_system_components[c].name
                            /\ suggestions[i].confidence
                                  = ScoreAgainst(element, c)
                /\ \A i \in 1..(Len(suggestions) - 1) :
                      suggestions[i].confidence >= suggestions[i + 1].confidence

\* four components score more than 30, three are suggested, and the two
\* that tie at the top are listed in catalog order
C20_Witness ==
    /\ Reported
    /\ Len(design_system_components) = 4
    /\ Len(mappings.unmapped_elements) = 1
    /\ Cardinality(Suggestable(mappings.unmapped_elements[1].element)) = 4
    /\ design_system_components[1].name = n_Button
    /\ design_system_components[2].name = n_Primary
    /\ design_system_components[1].has_variants
    /\ design_system_components[3] = GivenComponent(n_Button, FALSE)
    /\ LET suggestions == mappings.unmapped_elements[1].suggestions
       IN  /\ Len(suggestions) = 3
           /\ suggestions[1].component = n_Button
           /\ suggestions[2].component = n_Primary
           /\ suggestions[1].confidence = suggestions[2].confidence

-----------------------------------------------------------------------------
(* _determine_props_mapping applied to one element and one component: a    *)
(* text element or an instance with its instance properties, and a         *)
(* component declaring at most MaxProps props.                             *)

MaxProps == 2

k_Label == <<"L","a","b","e","l">>

\* the element _extract_layout_elements builds for a root node
ElementFor(name, type, characters, componentProperties) ==
    element_info(<<Node(TRUE, name, type, characters, componentProperties)>>,
                 1, <<>>)

InstancePropertiesInputs ==
    { <<>>,
      <<[k |-> k_variant, v |-> "secondary"]>>,
      <<[k |-> k_label, v |-> "Name"], [k |-> k_size, v |-> "medium"]>>,
      <<[k |-> k_title, v |-> "Welcome"]>> }

PropsElementInputs ==
    { ElementFor(n, "TEXT", t, <<>>) :
        n \in {n_Title, n_EmailInput}, t \in {"Submit", ""} }
    \cup { ElementFor(n, "INSTANCE", "", p) :
             n \in {n_PrimaryButton, n_EmailInput, n_Card},
             p \in InstancePropertiesInputs }

PropsComponentInputs ==
    { Component(n_Title, TRUE, [i \in 1..Len(names) |-> Prop(names[i], FALSE)],
                <<>>) :
        names \in SeqsUpTo({k_value, k_label, k_Label, k_title, k_size},
                           MaxProps) }
    \cup { Component(n_Title, FALSE, <<>>, <<>>) }

InitProps ==
    /\ pc = "props"
    /\ figma_element \in PropsElementInputs
    /\ design_system_component \in PropsComponentInputs
    /\ score = 0
    /\ document = <<>>
    /\ design_system_components = <<>>
    /\ min_confidence = 0
    /\ layout_elements = <<>>
    /\ flat_elements = <<>>
    /\ mappings = NoReport
    /\ prev_mappings = NoReport
    /\ IdleAnalysis

\* a call _determine_props_mapping(figma_element, design_system_component)
DeterminePropsMapping ==
    /\ pc \in {"props", "props_bound"}
    /\ bound_props' = determine_props_mapping(figma_element,
                                              design_system_component)
    /\ pc' = "props_bound"
    /\ UNCHANGED <<include_imports, include_typescript, generated_code,
                   components_data>>
    /\ UNCHANGED <<mapping_vars, style_vars, spacing_vars, tool_vars, exec_vars,
                   responsive_vars>>

NextProps == DeterminePropsMapping

SpecProps == InitProps /\ [][NextProps]_vars

\* the call has returned a props binding
PropsBound == pc = "props_bound" /\ ~bound_props.raised

\* the first name of text_prop_names that the component declares, as the
\* position in text_prop_names; 0 if it declares none
FirstInFixedOrder(component) ==
    LET declared == { j \in 1..Len(text_prop_names) :
                        \E i \in 1..Len(component.props) :
                            lower(component.props[i].name) = text_prop_names[j] }
    IN  IF declared = {} THEN 0
        ELSE CHOOSE j \in declared : \A h \in declared : j <= h

(* C21: when a text element with a non-empty text (whose name triggers no  *)
(* button or input heuristic) is bound to a component declaring several    *)
(* props among value, text, children, label, placeholder, title, the text  *)
(* is bound to exactly one declared prop, the one whose name comes first   *)
(* in the order value, text, children, label, placeholder, title, whatever *)
(* the order in which the component declares its props.                    *)
C21_TextBoundInFixedOrder ==
    (/\ PropsBound
     /\ PlainTextElement(figma_element)
     /\ figma_element.text_content # ""
     /\ design_system_component.props_is_list
     /\ Cardinality(DeclaredTextProps(design_system_component)) >= 2) =>
        LET j == FirstInFixedOrder(design_system_component)
        IN  \A i \in 1..Len(bound_props.value) :
                lower(bound_props.value[i].k) = text_prop_names[j]

(* C22: for an instance with declared instance properties P, the props     *)
(* binding contains every key k of P with the value P[k]: the name         *)
(* heuristics (variant, size, type, label, placeholder) never overwrite a  *)
(* key that P supplies.                                                    *)
C22_InstancePropertiesKept ==
    (/\ PropsBound
     /\ figma_element.is_instance
     /\ figma_element.component_properties # <<>>) =>
        dict_items(figma_element.component_properties)
            \subseteq dict_items(bound_props.value)

-----------------------------------------------------------------------------
(* map_components._generate_react_code and the functions it calls.         *)

\* the characters of the import paths, in code point order
Ascii == <<" ", "-", "/", "@">> \o UpperCase \o LowerCase

ord(c) == CHOOSE i \in 1..Len(Ascii) : Ascii[i] = c

UpperChar(c) ==
    IF \E i \in 1..26 : LowerCase[i] = c
    THEN UpperCase[CHOOSE i \in 1..26 : LowerCase[i] = c]
    ELSE c

\* str.upper()
upper(s) == [i \in 1..Len(s) |-> UpperChar(s[i])]

\* the Python comparison a < b of two strings
RECURSIVE str_less(_, _)
str_less(a, b) ==
    IF b = <<>> THEN FALSE
    ELSE IF a = <<>> THEN TRUE
    ELSE IF Head(a) # Head(b) THEN ord(Head(a)) < ord(Head(b))
    ELSE str_less(Tail(a), Tail(b))

\* sorted(a_set) of strings
RECURSIVE sorted_strings(_)
sorted_strings(a_set) ==
    IF a_set = {} THEN <<>>
    ELSE LET least == CHOOSE x \in a_set :
                          \A y \in a_set : x = y \/ str_less(x, y)
         IN  <<least>> \o sorted_strings(a_set \ {least})

\* s.split("/")[-1]
last_segment(s) ==
    IF \E i \in 1..Len(s) : s[i] = "/"
    THEN LET last == CHOOSE i \in 1..Len(s) :
                        /\ s[i] = "/"
                        /\ \A j \in (i + 1)..Len(s) : s[j] # "/"
         IN  SubSeq(s, last + 1, Len(s))
    ELSE s

t_BOOLEAN == <<"B","O","O","L","E","A","N">>
t_TEXT == <<"T","E","X","T">>
t_VARIANT == <<"V","A","R","I","A","N","T">>
t_INSTANCE_SWAP == <<"I","N","S","T","A","N","C","E","_","S","W","A","P">>
t_NUMBER == <<"N","U","M","B","E","R">>
t_any == <<"a","n","y">>

\* _convert_figma_type_to_ts
convert_figma_type_to_ts(figma_type) ==
    LET t == upper(figma_type)
    IN  IF t = t_BOOLEAN THEN "boolean"
        ELSE IF t \in {t_TEXT, t_VARIANT, t_INSTANCE_SWAP} THEN "string"
        ELSE IF t = t_NUMBER THEN "number"
        ELSE "any"

k_className == <<"c","l","a","s","s","N","a","m","e">>
k_style == <<"s","t","y","l","e">>

\* one line "  name?: type;" of an interface
Member(name, optional, ts_type) ==
    [name |-> name, optional |-> optional, ts_type |-> ts_type]

\* _generate_typescript_interface: the interface <name>Props and its
\* members in order.  component_info.get("props", []) is [] when the dict
\* has no key "props"; prop.get("type", "any") and
\* prop.get("required", False) likewise.
generate_typescript_interface(component_name, mapping) ==
    LET component_info == mapping.matched_component
        props == IF "props" \in DOMAIN component_info
                 THEN component_info.props ELSE <<>>
    IN  [name |-> component_name,
         members |->
            [i \in 1..Len(props) |->
                Member(props[i].name,
                       ~(IF "required" \in DOMAIN props[i]
                         THEN props[i].required ELSE FALSE),
                       convert_figma_type_to_ts(
                           IF "type" \in DOMAIN props[i]
                           THEN props[i].type ELSE t_any))]
            \o << Member(k_className, TRUE, "string"),
                  Member(k_style, TRUE, "React.CSSProperties"),
                  Member(k_children, TRUE, "React.ReactNode") >>]

\* f"import {{ {component_name} }} from '{import_path}';"
ImportStatement(import_path) ==
    [component_name |-> last_segment(import_path), import_path |-> import_path]

NoStatement == [component_name |-> <<>>, import_path |-> <<>>]
NoExample == [tag |-> <<>>, attrs |-> <<>>]

\* the lines of the scaffold: an import statement, a fixed text, or the
\* example code of one usage
ImportLine(statement) ==
    [kind |-> "import", text |-> "", statement |-> statement, code |-> NoExample]
TextLine(text) ==
    [kind |-> "text", text |-> text, statement |-> NoStatement, code |-> NoExample]
CodeLine(code) ==
    [kind |-> "code", text |-> "      ", statement |-> NoStatement, code |-> code]

\* _generate_example_component
generate_example_component(component_code, import_statements) ==
    (IF import_statements # <<>>
     THEN [i \in 1..Len(import_statements) |-> ImportLine(import_statements[i])]
          \o <<TextLine("")>>
     ELSE <<>>)
    \o << TextLine("const GeneratedComponent = () => {"),
          TextLine("  return ("),
          TextLine("    <div>") >>
    \o [i \in 1..Len(component_code) |-> CodeLine(component_code[i].code)]
    \o << TextLine("    </div>"),
          TextLine("  );"),
          TextLine("};"),
          TextLine(""),
          TextLine("export default GeneratedComponent;") >>

\* component_code of the groups from the g-th on
RECURSIVE usages_of(_, _, _)
usages_of(the_mappings, groups, g) ==
    IF g > Len(groups) THEN <<>>
    ELSE [i \in 1..Len(groups[g].v) |->
            LET mapping == the_mappings[groups[g].v[i]]
            IN  [id |-> mapping.figma_element.id,
                 name |-> mapping.figma_element.name,
                 code |-> mapping.example_code,
                 props |-> mapping.props_mapping]]
         \o usages_of(the_mappings, groups, g + 1)

NoCode == [generated |-> FALSE]

generate_react_code(the_mappings, with_imports, with_typescript) ==
    LET components_by_type == group_by_component(the_mappings, 1, <<>>)
        first_of(g) == the_mappings[components_by_type[g].v[1]]
        imports == { first_of(g).matched_component.import_path :
                        g \in 1..Len(components_by_type) }
        component_code == usages_of(the_mappings, components_by_type, 1)
        typescript_interfaces ==
            IF with_typescript
            THEN [g \in 1..Len(components_by_type) |->
                    generate_typescript_interface(components_by_type[g].k,
                                                  first_of(g))]
            ELSE <<>>
        sorted_imports == sorted_strings(imports)
        import_statements ==
            [i \in 1..Len(sorted_imports) |-> ImportStatement(sorted_imports[i])]
    IN  [generated |-> TRUE,
         imports |-> IF with_imports THEN import_statements ELSE <<>>,
         components |-> component_code,
         typescript_interfaces |->
            IF with_typescript THEN typescript_interfaces ELSE <<>>,
         total_components |-> Len(components_by_type),
         total_usages |-> Len(the_mappings),
         has_example_component |-> component_code # <<>>,
         example_component |->
            IF component_code # <<>>
            THEN generate_example_component(component_code, import_statements)
            ELSE <<>>]

-----------------------------------------------------------------------------
(* The mapping run followed by code generation, as map_layout_to_components *)
(* chains them with generate_code set: catalogs whose components declare   *)
(* typed props, and both options.                                          *)

t_ENUM == <<"E","N","U","M">>
k_disabled == <<"d","i","s","a","b","l","e","d">>
k_kind == <<"k","i","n","d">>

TypedProp(name, type, required) ==
    [name |-> name, type |-> type, required |-> required]

CodeComponentInputs ==
    { Component(n_Button, TRUE,
                <<TypedProp(k_variant, t_VARIANT, TRUE),
                  TypedProp(k_disabled, t_BOOLEAN, FALSE)>>, <<>>),
      Component(n_Title, TRUE,
                <<TypedProp(k_label, t_TEXT, FALSE),
                  TypedProp(k_size, t_NUMBER, FALSE)>>, <<>>),
      Component(n_TitleButton, TRUE,
                <<TypedProp(k_kind, t_ENUM, FALSE)>>, <<>>) }

CodeCatalogInputs ==
    { c \in SeqsUpTo(CodeComponentInputs, MaxCatalog) :
        \A i, j \in 1..Len(c) : i # j => c[i] # c[j] }

CodeDocumentInputs ==
    { StarDocument(c) : c \in SeqsUpTo(NodeInputs, MaxChildren) }

InitCode ==
    /\ pc = "start"
    /\ document \in CodeDocumentInputs
    /\ design_system_components \in CodeCatalogInputs
    /\ min_confidence \in {0, 30}
    /\ include_imports \in BOOLEAN
    /\ include_typescript \in BOOLEAN
    /\ layout_elements = <<>>
    /\ flat_elements = <<>>
    /\ mappings = NoReport
    /\ prev_mappings = NoReport
    /\ figma_element = NoElement
    /\ design_system_component = NoComponent
    /\ score = 0
    /\ bound_props = NoValue
    /\ generated_code = NoValue
    /\ components_data = NoValue
    /\ IdleStyle /\ IdleSpacing /\ IdleTool /\ IdleExec /\ IdleResponsive

\* generated_code = None, then the call _generate_react_code(
\* mappings["mappings"], include_imports, include_typescript) if any element
\* was mapped
GenerateReactCode ==
    /\ pc = "mapped"
    /\ generated_code' =
          IF mappings.successfully_mapped > 0
          THEN generate_react_code(mappings.mappings, include_imports,
                                   include_typescript)
          ELSE NoCode
    /\ pc' = "generated"
    /\ UNCHANGED <<bound_props, include_imports, include_typescript,
                   components_data>>
    /\ UNCHANGED <<mapping_vars, style_vars, spacing_vars, tool_vars, exec_vars,
                   responsive_vars>>

NextCode ==
    ExtractLayoutElements \/ MapElementsToComponents \/ GenerateReactCode

SpecCode == InitCode /\ [][NextCode]_vars

\* _generate_react_code has returned
Generated == pc = "generated" /\ generated_code.generated

\* the type table the interfaces are to follow
TsTypeOf(figma_type) ==
    IF figma_type \in {t_VARIANT, t_TEXT} THEN "string"
    ELSE IF figma_type = t_BOOLEAN THEN "boolean"
    ELSE IF figma_type = t_NUMBER THEN "number"
    ELSE "any"

\* name and type of the members of an interface, in order
MemberTypes(members) ==
    [i \in 1..Len(members) |-> <<members[i].name, members[i].ts_type>>]

(* C23: when type interfaces are requested, the generator emits exactly    *)
(* one interface per distinct matched component, and the interface lists   *)
(* every prop the catalog component declares, typed by the table (VARIANT  *)
(* and TEXT string, BOOLEAN boolean, NUMBER number, anything else any),    *)
(* followed by className, style and children.                              *)
C23_InterfacesListDeclaredProps ==
    (Generated /\ include_typescript) =>
        LET interfaces == generated_code.typescript_interfaces
            matched == { MatchedComponentOf(mappings.mappings[m]) :
                            m \in 1..Len(mappings.mappings) }
        IN  /\ Len(interfaces) = Cardinality(matched)
            /\ \A component \in matched :
                  \E i \in 1..Len(interfaces) :
                      /\ interfaces[i].name = component.name
                      /\ MemberTypes(interfaces[i].members)
                           = [p \in 1..Len(component.props) |->
                                <<component.props[p].name,
                                  TsTypeOf(component.props[p].type)>>]
                             \o << <<k_className, "string">>,
                                   <<k_style, "React.CSSProperties">>,
                                   <<k_children, "React.ReactNode">> >>

(* C30: when include_imports is false the generated code holds no import   *)
(* statement: the imports list is empty and no line of example_component   *)
(* is an import.                                                           *)
C30_NoImportsWhenNotIncluded ==
    (Generated /\ ~include_imports) =>
        /\ generated_code.imports = <<>>
        /\ \A i \in 1..Len(generated_code.example_component) :
              generated_code.example_component[i].kind # "import"

-----------------------------------------------------------------------------
(* C24: for every node of every tree, the path of its flattened entry is   *)
(* the path of its parent's entry + "/" + its own name, and the root's     *)
(* path is the root's own name, nodes with an empty or a missing name      *)
(* included.  The own name of a node without the key "name" is the name    *)
(* the function itself substitutes: the "name" field "Unnamed" of          *)
(* extract_elements, the "unnamed" of flatten_figma_tree.                  *)
EntryOf(entries, n) ==
    entries[CHOOSE i \in 1..Len(entries) : entries[i].id = n]

PathsFollowNames(entries, tree, default) ==
    \A n \in 1..Len(tree) :
        LET own == get_name(tree[n], default)
        IN  EntryOf(entries, n).path =
                IF n = 1 THEN own
                ELSE EntryOf(entries, parent_of(tree, n)).path \o s_slash \o own

C24_PathIsParentPathSlashName ==
    /\ pc \in {"flattened", "extracted_flat"} =>
          PathsFollowNames(flat_elements, document, s_unnamed)
    /\ pc = "extracted_flat" =>
          PathsFollowNames(layout_elements, document, s_Unnamed)

-----------------------------------------------------------------------------
(* analyze_layout._analyze_responsive_pattern, as analyze_node_layout      *)
(* calls it for a node with at least one child.                            *)

m_HORIZONTAL == <<"H","O","R","I","Z","O","N","T","A","L">>
m_VERTICAL == <<"V","E","R","T","I","C","A","L">>
m_NONE == <<"N","O","N","E">>
s_auto_layout == <<"_","a","u","t","o","_","l","a","y","o","u","t">>
s_wrap == <<"_","w","r","a","p">>
s_responsive_constraints ==
    <<"r","e","s","p","o","n","s","i","v","e","_",
      "c","o","n","s","t","r","a","i","n","t","s">>

\* a child and its "constraints" dict; has_constraints is FALSE when the key
\* is missing or the dict is empty
Constrained(has_constraints, horizontal, vertical) ==
    [has_constraints |-> has_constraints, horizontal |-> horizontal,
     vertical |-> vertical]

\* a node with its auto-layout fields
Container(layoutMode, counterAxis, primaryAxis, layoutWrap, the_children) ==
    [layoutMode |-> layoutMode,
     counterAxisSizingMode |-> counterAxis,
     primaryAxisSizingMode |-> primaryAxis,
     layoutWrap |-> layoutWrap,
     children |-> the_children]

\* the loop that counts responsive_children, from the i-th child on
RECURSIVE count_responsive(_, _, _)
count_responsive(the_children, i, responsive_children) ==
    IF i > Len(the_children) THEN responsive_children
    ELSE LET child == the_children[i]
             h == IF /\ child.has_constraints
                     /\ child.horizontal \in {"LEFT_RIGHT", "CENTER", "SCALE"}
                  THEN 1 ELSE 0
             v == IF /\ child.has_constraints
                     /\ child.vertical \in {"TOP_BOTTOM", "CENTER", "SCALE"}
                  THEN 1 ELSE 0
         IN  count_responsive(the_children, i + 1, responsive_children + h + v)

\* responsive_children > len(children) * 0.5 is compared doubled
analyze_responsive_pattern(the_node, the_children) ==
    IF /\ the_node.layoutMode \in {m_HORIZONTAL, m_VERTICAL}
       /\ \/ the_node.counterAxisSizingMode = "AUTO"
          \/ the_node.primaryAxisSizingMode = "AUTO"
    THEN Pattern(FALSE,
                 lower(the_node.layoutMode) \o s_auto_layout
                 \o (IF the_node.layoutWrap = "WRAP" THEN s_wrap ELSE <<>>))
    ELSE IF 2 * count_responsive(the_children, 1, 0) > Len(the_children)
         THEN Pattern(FALSE, s_responsive_constraints)
         ELSE Pattern(TRUE, <<>>)

ConstrainedInputs ==
    { Constrained(FALSE, "", ""),
      Constrained(TRUE, "LEFT", "TOP"),
      Constrained(TRUE, "SCALE", "TOP"),
      Constrained(TRUE, "LEFT_RIGHT", "TOP_BOTTOM") }

ContainerInputs ==
    { Container(m, c, p, w, ch) :
        m \in {m_NONE, m_HORIZONTAL, m_VERTICAL},
        c \in {"FIXED", "AUTO"}, p \in {"FIXED", "AUTO"},
        w \in {"NO_WRAP", "WRAP"},
        ch \in SeqsUpTo(ConstrainedInputs, MaxSiblings) \ {<<>>} }

InitResponsive ==
    /\ pc = "container"
    /\ container \in ContainerInputs
    /\ responsive_pattern = NoValue
    /\ IdleMapping /\ IdleStyle /\ IdleSpacing /\ IdleTool /\ IdleExec
    /\ IdleGenerator

\* the call _analyze_responsive_pattern(node, children) of analyze_node_layout
AnalyzeResponsivePattern ==
    /\ pc = "container"
    /\ responsive_pattern' =
          analyze_responsive_pattern(container, container.children)
    /\ pc' = "container_analyzed"
    /\ UNCHANGED container
    /\ UNCHANGED <<mapping_vars, style_vars, spacing_vars, tool_vars, exec_vars,
                   generator_vars>>

NextResponsive == AnalyzeResponsivePattern

SpecResponsive == InitResponsive /\ [][NextResponsive]_vars

\* the children that declare a scaling or stretch constraint on an axis
ResponsiveChildren(the_children) ==
    { i \in 1..Len(the_children) :
        /\ the_children[i].has_constraints
        /\ \/ the_children[i].horizontal \in {"LEFT_RIGHT", "CENTER", "SCALE"}
           \/ the_children[i].vertical \in {"TOP_BOTTOM", "CENTER", "SCALE"} }

\* the node qualifies for the tag <axis>_auto_layout
QualifiesForAutoLayout(the_node) ==
    /\ the_node.layoutMode \in {m_HORIZONTAL, m_VERTICAL}
    /\ \/ the_node.counterAxisSizingMode = "AUTO"
       \/ the_node.primaryAxisSizingMode = "AUTO"

\* the tags reported for the node: one pattern, or none
ReportedTags ==
    IF responsive_pattern.is_none THEN {} ELSE {responsive_pattern.text}

(* C25: a container is tagged responsive_constraints if and only if more   *)
(* than half of its children declare scaling or stretch constraints, each  *)
(* child counted once; the tag does not depend on the auto-layout tag, so  *)
(* a container that qualifies for both is reported with both.              *)
C25_ResponsiveConstraintsIffMajority ==
    pc = "container_analyzed" =>
        (s_responsive_constraints \in ReportedTags
            <=> 2 * Cardinality(ResponsiveChildren(container.children))
                    > Len(container.children))

-----------------------------------------------------------------------------
(* map_components._extract_design_system_components on what the Figma API  *)
(* answers.  An entry of components_data["components"] is modelled with    *)
(* what the loop reads of it and of the get_file_nodes answer for its key: *)
(* whether it has the key "key", whether nodes_data["nodes"] holds that    *)
(* key, whether the node holds "document", and of the document its type,   *)
(* its componentPropertyDefinitions and the types of its children.  The    *)
(* key of an entry is its position in the list.                            *)

CatalogEntry(has_key, in_nodes, has_document, name, type, defs, kinds) ==
    [has_key |-> has_key, in_nodes |-> in_nodes,
     has_document |-> has_document, name |-> name, type |-> type,
     definitions |-> defs, child_types |-> kinds]

\* utils.extract_component_properties: the value of the key "props" of the
\* dict it returns; the dict itself has PropertiesDictLen keys
extract_component_properties(node) ==
    [i \in 1..Len(node.definitions) |->
        [name |-> node.definitions[i].name, type |-> node.definitions[i].type]]

\* _extract_component_variants: one variant per child of type COMPONENT
extract_component_variants(node) ==
    SelectSeq(node.child_types, LAMBDA t : t = "COMPONENT")

\* component_info of one entry.  Its "props" is the dict of
\* extract_component_properties, so props_is_list is FALSE and props holds
\* the list under the dict's key "props".
component_info_of(entry, key) ==
    [id |-> key] @@
    Component(entry.name, FALSE, extract_component_properties(entry),
              IF entry.type = "COMPONENT_SET"
              THEN extract_component_variants(entry) ELSE <<>>)

\* the loop over components_data["components"] from the i-th entry on;
\* component["key"] and nodes[...]["document"] raise KeyError, which the
\* function logs and raises again
RECURSIVE extract_entries(_, _, _)
extract_entries(entries, i, components) ==
    IF i > Len(entries) THEN [raised |-> FALSE, value |-> components]
    ELSE IF ~entries[i].has_key THEN [raised |-> TRUE, value |-> <<>>]
    ELSE IF ~entries[i].in_nodes
         THEN extract_entries(entries, i + 1, components)
    ELSE IF ~entries[i].has_document THEN [raised |-> TRUE, value |-> <<>>]
    ELSE extract_entries(entries, i + 1,
                         Append(components, component_info_of(entries[i], i)))

extract_design_system_components(data) == extract_entries(data, 1, <<>>)

CatalogEntryInputs ==
    { CatalogEntry(TRUE, TRUE, TRUE, n_Button, "COMPONENT",
                   <<[name |-> k_label, type |-> t_TEXT]>>, <<>>),
      CatalogEntry(TRUE, TRUE, TRUE, n_Title, "COMPONENT_SET", <<>>,
                   <<"COMPONENT", "COMPONENT">>),
      CatalogEntry(FALSE, FALSE, FALSE, n_Primary, "COMPONENT", <<>>, <<>>),
      CatalogEntry(TRUE, FALSE, FALSE, n_Button, "COMPONENT", <<>>, <<>>),
      CatalogEntry(TRUE, TRUE, FALSE, n_Title, "COMPONENT", <<>>, <<>>) }

CatalogDataInputs == SeqsUpTo(CatalogEntryInputs, MaxCatalog)

CatalogDocumentInputs ==
    { StarDocument(c) : c \in SeqsUpTo(NodeInputs, 1) }

InitCatalog ==
    /\ pc = "catalog"
    /\ components_data \in CatalogDataInputs
    /\ document \in CatalogDocumentInputs
    /\ min_confidence \in {0, 30}
    /\ design_system_components = <<>>
    /\ layout_elements = <<>>
    /\ flat_elements = <<>>
    /\ mappings = NoReport
    /\ prev_mappings = NoReport
    /\ figma_element = NoElement
    /\ design_system_component = NoComponent
    /\ score = 0
    /\ bound_props = NoValue
    /\ include_imports = FALSE
    /\ include_typescript = FALSE
    /\ generated_code = NoValue
    /\ IdleStyle /\ IdleSpacing /\ IdleTool /\ IdleExec /\ IdleResponsive

\* the call _extract_design_system_components(design_system_file_key) of
\* map_layout_to_components, which comes before _extract_layout_elements
ExtractComponentsOfCatalog ==
    /\ pc = "catalog"
    /\ LET result == extract_design_system_components(components_data)
       IN  IF result.raised
           THEN /\ pc' = "catalog_raised"
                /\ UNCHANGED design_system_components
           ELSE /\ pc' = "start"
                /\ design_system_components' = result.value
    /\ UNCHANGED <<document, min_confidence, layout_elements, flat_elements,
                   mappings, prev_mappings, figma_element,
                   design_system_component, score>>
    /\ UNCHANGED analysis_vars

NextCatalog ==
    ExtractComponentsOfCatalog \/ ExtractLayoutElements
    \/ MapElementsToComponents

SpecCatalog == InitCatalog /\ [][NextCatalog]_vars

\* an entry from which a component can be built
WellFormed(entry) == entry.has_key /\ entry.in_nodes /\ entry.has_document

WellFormedKeys ==
    SelectSeq([i \in 1..Len(components_data) |-> i],
              LAMBDA i : WellFormed(components_data[i]))

(* C26: when one entry of the catalog is malformed (it lacks its key, or   *)
(* its node data cannot be processed), catalog extraction skips that entry *)
(* alone and returns every well-formed entry, in catalog order; it does    *)
(* not abort.                                                              *)
C26_MalformedEntrySkipped ==
    (/\ pc # "catalog"
     /\ Len(WellFormedKeys) = Len(components_data) - 1) =>
        /\ pc # "catalog_raised"
        /\ [i \in 1..Len(design_system_components) |->
                design_system_components[i].id] = WellFormedKeys

(* C27: every component that _extract_design_system_components builds      *)
(* carries its props as a list of property definitions, each with a name,  *)
(* and so the mapper, run on the built catalog, does not raise: every      *)
(* element whose largest score is above 0 and at or above the floor has    *)
(* its Mapping in the returned report.                                     *)
C27_BuiltCatalogMaps ==
    /\ pc \notin {"catalog", "catalog_raised"} =>
          \A c \in 1..Len(design_system_components) :
              design_system_components[c].props_is_list
    /\ pc # "raised"
    /\ Reported =>
          \A id \in MappableIds :
              (/\ design_system_components # <<>>
               /\ MaxScoreOf(ElementOf(id)) > 0
               /\ MaxScoreOf(ElementOf(id)) >= min_confidence) =>
                  MappingsOf(id) # {}

-----------------------------------------------------------------------------
(* C28: for every unmapped element of the report, best_score is the        *)
(* largest similarity score of the element over the catalog (0 only when   *)
(* the catalog is empty or every score is 0), and the reason is "No        *)
(* component meets minimum confidence" when some component scored above 0  *)
(* and "No suitable component found" when none did.                        *)
LargestScoreOf(element) ==
    IF design_system_components = <<>> THEN 0 ELSE MaxScoreOf(element)

C28_BestScoreIsLargestScore ==
    Reported =>
        \A u \in 1..Len(mappings.unmapped_elements) :
            LET entry == mappings.unmapped_elements[u]
                largest == LargestScoreOf(entry.element)
            IN  /\ entry.best_score = largest
                /\ entry.reason = IF largest > 0
                                  THEN "No component meets minimum confidence"
                                  ELSE "No suitable component found"

-----------------------------------------------------------------------------
(* C29: every call of MyAgentExecutor.execute that returns has emitted     *)
(* exactly one terminal status (completed, failed or input_required), and  *)
(* that status is its last status update, whatever finite sequence of      *)
(* items the stream yields: an empty stream and items with both            *)
(* is_task_complete and require_user_input included.                       *)
C29_ReturnsAfterOneTerminalStatus ==
    (pc = "returned" /\ returned = "None") =>
        LET states == StatesOf(event_queue)
        IN  /\ states # <<>>
            /\ states[Len(states)] \in TerminalStates
            /\ \A i \in 1..(Len(states) - 1) : states[i] \notin TerminalStates

====
